---- MODULE Spec2Model ----
(***************************************************************************)
(* Verification model of the structured-data generator's deterministic     *)
(* core: the Repair Functions and the Validator (src/unnamed/part_000,     *)
(* the validator with pageUrl support), the Zod schemas it validates       *)
(* against (src/src/lib/schemas/definitions.ts) and the validation step of *)
(* runPipeline (src/src/lib/pipeline/index.ts).                            *)
(*                                                                         *)
(* JSON values are tagged records: Null, Undefined, Str(chars), Num(..),   *)
(* Bool(b), Arr(seq), Obj(function from key to value).  A string is a      *)
(* sequence of one-character strings so that the regular expressions and   *)
(* parsers of the code can be computed character by character.  A key      *)
(* that is absent from an object is a key outside DOMAIN of its function.  *)
(***************************************************************************)
EXTENDS Integers, Sequences, FiniteSets, TLC

VARIABLES
    pc,                 \* position of the operation under way
    cand,               \* validate: the ExtractionResult passed in
    pageUrl,            \* validate: the pageUrl argument (Undefined when omitted)
    tzOffset,           \* host time-zone offset, hours east of UTC
    result,             \* validate: the value returned
    steps,              \* validate: the checks run, in order
    batch,              \* validateMultiEntity: the candidates
    validationResult,   \* runPipeline: value of validateMultiEntity
    pipelineResult,     \* runPipeline: value returned
    priceIn,            \* repairPrice: argument
    priceOut,           \* repairPrice: value returned
    urlIn,              \* repairUrl: the url argument
    baseIn,             \* repairUrl: the baseUrl argument (Undefined when omitted)
    urlOut,             \* repairUrl of part_000: value returned
    urlOutOld,          \* repairUrl of pipeline/validator.ts: value returned
    dateIn,             \* repairDate: argument
    dateOut,            \* repairDate: value returned
    facts,              \* mergeVisibleText: the facts argument
    visibleText,        \* mergeVisibleText: the visibleText argument
    merged,             \* mergeVisibleText: value returned
    rawHtml,            \* clean: the markup passed in
    document,           \* clean: the DOM tree, pruned in place
    meta,               \* clean: meta tags harvested
    elementsRemoved,    \* clean: running count of removed elements
    removedBy,          \* clean: count logged after each removal pass
    cleaningResult,     \* clean: value returned
    cleanings,          \* the invocations of clean finished so far
    unsupported,        \* clean: the patterns whose evaluation throws
    cleanedHtml,        \* flattenHtml: argument
    flattenResult,      \* flattenHtml: value returned
    ingestUrl,          \* ingest: the url argument
    browser,            \* ingest: the browser ("none" until launched)
    completion,         \* ingest: the value of the return that finally holds back
    ingestionResult,    \* ingest: the value delivered to the caller
    scrollDepth,        \* autoScroll: the last scroll position read
    lastScrollY,        \* autoScroll: the scroll position before it
    logs,               \* logger: the entries of the shared PipelineLogger
    debugEnabled,       \* logger: whether DEBUG entries are kept
    runs                \* runPipeline: the locals of each invocation

urlVars == <<urlIn, baseIn, urlOut, urlOutOld>>
dateVars == <<dateIn, dateOut>>
mergeVars == <<facts, visibleText, merged>>
cleanVars == <<rawHtml, document, meta, elementsRemoved, removedBy,
               cleaningResult, cleanings, unsupported>>
flattenVars == <<cleanedHtml, flattenResult>>

\* the variables of the operations outside the validator
ingestVars == <<ingestUrl, browser, completion, ingestionResult, scrollDepth, lastScrollY>>
logVars == <<logs, debugEnabled>>

\* the variables of ingest, the logger, runPipeline and overlapping operations
restVars == <<ingestVars, logVars, runs>>

laterVars == <<urlVars, dateVars, mergeVars, cleanVars, flattenVars, restVars>>

\* the variables of the validator, of runPipeline's validation step and of
\* repairPrice
coreVars == <<cand, pageUrl, tzOffset, result, steps, batch, validationResult,
              pipelineResult, priceIn, priceOut>>

vars == <<pc, cand, pageUrl, tzOffset, result, steps, batch,
          validationResult, pipelineResult, priceIn, priceOut, laterVars>>

-----------------------------------------------------------------------------
(* JSON values *)

Null == [k |-> "null"]
Undefined == [k |-> "undefined"]
Str(s) == [k |-> "str", v |-> s]
Bool(b) == [k |-> "bool", v |-> b]
Arr(s) == [k |-> "arr", v |-> s]
Obj(f) == [k |-> "obj", v |-> f]
\* the number (-1)^neg * m / 10^e, with no trailing zero in the fraction
Num(neg, m, e) == [k |-> "num", neg |-> neg, m |-> m, e |-> e]
NaN == [k |-> "nan"]

IsNullish(x) == x.k \in {"null", "undefined"}

\* o.key, and o?.key when o is null or undefined
Get(o, key) ==
    IF o.k = "obj" /\ key \in DOMAIN o.v THEN o.v[key] ELSE Undefined

\* JavaScript truthiness: if (x), x || y, filter(Boolean)
Truthy(x) ==
    CASE x.k \in {"null", "undefined", "nan"} -> FALSE
      [] x.k = "str" -> x.v # <<>>
      [] x.k = "bool" -> x.v
      [] x.k = "num" -> x.m # 0
      [] OTHER -> TRUE

\* x?.length as a truth value: if (x?.length)
HasLength(x) == x.k \in {"arr", "str"} /\ Len(x.v) > 0

-----------------------------------------------------------------------------
(* Characters and numbers *)

Digits == {"0", "1", "2", "3", "4", "5", "6", "7", "8", "9"}

DigitVal(c) ==
    CASE c = "0" -> 0 [] c = "1" -> 1 [] c = "2" -> 2 [] c = "3" -> 3
      [] c = "4" -> 4 [] c = "5" -> 5 [] c = "6" -> 6 [] c = "7" -> 7
      [] c = "8" -> 8 [] c = "9" -> 9

DigitChar(d) ==
    CASE d = 0 -> "0" [] d = 1 -> "1" [] d = 2 -> "2" [] d = 3 -> "3"
      [] d = 4 -> "4" [] d = 5 -> "5" [] d = 6 -> "6" [] d = 7 -> "7"
      [] d = 8 -> "8" [] d = 9 -> "9"

RECURSIVE Pow10(_)
Pow10(e) == IF e = 0 THEN 1 ELSE 10 * Pow10(e - 1)

\* value of a sequence of digits (0 for the empty sequence)
RECURSIVE DigitsVal(_)
DigitsVal(ds) ==
    IF ds = <<>> THEN 0
    ELSE 10 * DigitsVal(SubSeq(ds, 1, Len(ds) - 1)) + DigitVal(ds[Len(ds)])

RECURSIVE NatChars(_)
NatChars(n) ==
    IF n < 10 THEN <<DigitChar(n)>>
    ELSE NatChars(n \div 10) \o <<DigitChar(n % 10)>>

\* n as exactly w digits, zero-padded on the left
RECURSIVE PadChars(_, _)
PadChars(n, w) ==
    IF w = 0 THEN <<>> ELSE PadChars(n \div 10, w - 1) \o <<DigitChar(n % 10)>>

RECURSIVE Normalize(_, _, _)
Normalize(neg, m, e) ==
    IF e > 0 /\ m % 10 = 0 THEN Normalize(neg, m \div 10, e - 1)
    ELSE Num(neg, m, e)

\* String(value) for a number or a string
StringOf(value) ==
    IF value.k = "num"
    THEN (IF value.neg THEN <<"-">> ELSE <<>>)
         \o NatChars(value.m \div Pow10(value.e))
         \o (IF value.e = 0 THEN <<>>
             ELSE <<".">> \o PadChars(value.m % Pow10(value.e), value.e))
    ELSE value.v

\* length of the longest prefix of s, from position i on, made of characters of S
RECURSIVE RunLen(_, _, _)
RunLen(s, i, S) ==
    IF i > Len(s) \/ s[i] \notin S THEN 0 ELSE 1 + RunLen(s, i + 1, S)

\* parseFloat on a string without leading white space or sign: the longest
\* prefix digits [. digits] holding at least one digit, NaN when there is none
parseFloat(s) ==
    LET \* ni digits, then nf digits after a "."
        Number(ni, nf) ==
            IF ni + nf = 0 THEN NaN
            ELSE Normalize(FALSE,
                           DigitsVal(SubSeq(s, 1, ni) \o SubSeq(s, ni + 2, ni + 1 + nf)),
                           nf)
        Fraction(ni) ==
            Number(ni, IF ni + 1 <= Len(s) /\ s[ni + 1] = "."
                       THEN RunLen(s, ni + 2, Digits) ELSE 0)
    IN Fraction(RunLen(s, 1, Digits))

\* Math.floor of a non-negative number
Floor(n) == Num(n.neg, n.m \div Pow10(n.e), 0)

-----------------------------------------------------------------------------
(* repairPrice *)

PriceRunChars == Digits \cup {","}

\* str.match(/[\d,]+\.?\d*/): the leftmost match, greedy in each part
MatchPrice(str) ==
    LET Match(i, n) == [found |-> TRUE, text |-> SubSeq(str, i, i + n - 1)]
        \* [\d,]+ matched str[i..i+n1-1]
        Run(i, n1) ==
            IF i + n1 <= Len(str) /\ str[i + n1] = "."
            THEN Match(i, n1 + 1 + RunLen(str, i + n1 + 1, Digits))
            ELSE Match(i, n1)
        From(i) == Run(i, RunLen(str, i, PriceRunChars))
        Leftmost(starts) ==
            IF starts = {} THEN [found |-> FALSE, text |-> <<>>]
            ELSE From(CHOOSE j \in starts : \A h \in starts : j <= h)
    IN Leftmost({i \in 1..Len(str) : str[i] \in PriceRunChars})

\* s.replace(/,(?=\d{3})/g, ''): drop every comma that three digits follow
RECURSIVE StripThousands(_, _)
StripThousands(s, i) ==
    IF i > Len(s) THEN <<>>
    ELSE IF s[i] = "," /\ i + 3 <= Len(s)
            /\ \A j \in (i + 1)..(i + 3) : s[j] \in Digits
         THEN StripThousands(s, i + 1)
         ELSE <<s[i]>> \o StripThousands(s, i + 1)

\* s.replace(',', '.'): the first comma only
ReplaceFirstComma(s) ==
    LET cs == {i \in 1..Len(s) : s[i] = ","}
    IN IF cs = {} THEN s
       ELSE LET i == CHOOSE j \in cs : \A h \in cs : j <= h
            IN [s EXCEPT ![i] = "."]

repairPrice(value) ==
    LET Parsed(num) == IF num.k # "nan" THEN num ELSE Null
        Cleaned(match) ==
            IF match.found
            THEN Parsed(parseFloat(ReplaceFirstComma(StripThousands(match.text, 1))))
            ELSE Null
    IN IF IsNullish(value) THEN Null ELSE Cleaned(MatchPrice(StringOf(value)))

-----------------------------------------------------------------------------
(* repairUrl.  new URL(..) is modelled for http(s) URLs and for paths made  *)
(* of letters, digits, ".", "-", "_" and "/": no query, fragment, port,     *)
(* credentials or dot segments occur in the inputs of this model.           *)

Lower == {"a", "b", "c", "d", "e", "f", "g", "h", "i", "j", "k", "l", "m",
          "n", "o", "p", "q", "r", "s", "t", "u", "v", "w", "x", "y", "z"}
Upper == {"A", "B", "C", "D", "E", "F", "G", "H", "I", "J", "K", "L", "M",
          "N", "O", "P", "Q", "R", "S", "T", "U", "V", "W", "X", "Y", "Z"}
Letters == Lower \cup Upper

StartsWith(s, p) == Len(s) >= Len(p) /\ SubSeq(s, 1, Len(p)) = p

Drop(s, n) == SubSeq(s, n + 1, Len(s))

HttpScheme == <<"h", "t", "t", "p">>
HttpsScheme == <<"h", "t", "t", "p", "s">>

\* the URL parser strips leading and trailing spaces
RECURSIVE TrimSpaces(_)
TrimSpaces(s) ==
    IF s # <<>> /\ s[1] = " " THEN TrimSpaces(Drop(s, 1))
    ELSE IF s # <<>> /\ s[Len(s)] = " " THEN TrimSpaces(SubSeq(s, 1, Len(s) - 1))
    ELSE s

\* length of the longest prefix of s, from position i on, with no character of S
RECURSIVE RunLenNot(_, _, _)
RunLenNot(s, i, S) ==
    IF i > Len(s) \/ s[i] \in S THEN 0 ELSE 1 + RunLenNot(s, i + 1, S)

\* code points a host may not hold
ForbiddenHost == {" ", "<", ">", "[", "]", "^", "|", "%", "@", ":"}

\* the scheme of s: the characters before the first ":", when they start with
\* a letter and hold only letters, digits, "+", "-", "."; <<>> when s has none
SchemeOf(s) ==
    LET Upto(n) ==
            IF n > 0 /\ s[1] \in Letters /\ n + 1 <= Len(s) /\ s[n + 1] = ":"
            THEN SubSeq(s, 1, n) ELSE <<>>
    IN Upto(RunLen(s, 1, Letters \cup Digits \cup {"+", "-", "."}))

\* new URL(s) without a base: [ok, scheme, host, path]; ok = FALSE when it throws
ParseUrl(raw) ==
    LET bad == [ok |-> FALSE, scheme |-> <<>>, host |-> <<>>, path |-> <<>>]
        \* rest holds the host in its first hn characters, then the path
        Authority(scheme, rest, hn) ==
            IF hn = 0 \/ \E i \in 1..hn : rest[i] \in ForbiddenHost
            THEN bad
            ELSE [ok |-> TRUE, scheme |-> scheme, host |-> SubSeq(rest, 1, hn),
                  path |-> IF hn = Len(rest) THEN <<"/">> ELSE Drop(rest, hn)]
        AfterSlashes(scheme, rest) ==
            Authority(scheme, rest, RunLenNot(rest, 1, {"/", "\\", "?", "#"}))
        \* a special scheme skips every slash before the authority
        AfterScheme(scheme, rest0) ==
            AfterSlashes(scheme, Drop(rest0, RunLen(rest0, 1, {"/", "\\"})))
        WithScheme(s, scheme) ==
            IF scheme = <<>> THEN bad
            ELSE IF scheme \in {HttpScheme, HttpsScheme}
            THEN AfterScheme(scheme, Drop(s, Len(scheme) + 1))
            \* another scheme: an opaque path, kept as written
            ELSE [ok |-> TRUE, scheme |-> scheme, host |-> <<>>,
                  path |-> Drop(s, Len(scheme) + 1)]
        Trimmed(s) == WithScheme(s, SchemeOf(s))
    IN Trimmed(TrimSpaces(raw))

Href(u) ==
    IF u.scheme \in {HttpScheme, HttpsScheme}
    THEN u.scheme \o <<":", "/", "/">> \o u.host \o u.path
    ELSE u.scheme \o <<":">> \o u.path

\* the path up to and including its last "/"
RECURSIVE DirOf(_)
DirOf(path) ==
    IF path = <<>> THEN <<"/">>
    ELSE IF path[Len(path)] = "/" THEN path
    ELSE DirOf(SubSeq(path, 1, Len(path) - 1))

\* new URL(url, base).href: [ok, href]
ResolveUrl(rawUrl, rawBase) ==
    LET Absolute(abs) == [ok |-> abs.ok, href |-> IF abs.ok THEN Href(abs) ELSE <<>>]
        Against(b, s, scheme) ==
            IF ~b.ok THEN [ok |-> FALSE, href |-> <<>>]
            ELSE IF scheme # <<>> THEN Absolute(ParseUrl(s))
            \* a scheme-relative reference takes the scheme of the base
            ELSE IF StartsWith(s, <<"/", "/">>)
            THEN Absolute(ParseUrl(b.scheme \o <<":">> \o s))
            ELSE IF StartsWith(s, <<"/">>)
            THEN [ok |-> TRUE, href |-> Href([b EXCEPT !.path = s])]
            ELSE [ok |-> TRUE, href |-> Href([b EXCEPT !.path = DirOf(b.path) \o s])]
        Trimmed(b, s) == Against(b, s, SchemeOf(s))
    IN Trimmed(ParseUrl(rawBase), TrimSpaces(rawUrl))

repairUrl(url, baseUrl) ==
    LET \* new URL(raw); return raw
        Validated(raw) == IF ParseUrl(raw).ok THEN Str(raw) ELSE Null
        Resolved(absolute) == IF absolute.ok THEN Str(absolute.href) ELSE Null
    IN IF ~Truthy(url) THEN Null
       ELSE IF StartsWith(url.v, <<"/", "/">>)
       THEN Validated(<<"h", "t", "t", "p", "s", ":">> \o url.v)
       ELSE IF StartsWith(url.v, HttpScheme \o <<":", "/", "/">>)
               \/ StartsWith(url.v, HttpsScheme \o <<":", "/", "/">>)
       THEN Validated(url.v)
       ELSE IF Truthy(baseUrl)
       THEN Resolved(ResolveUrl(url.v, baseUrl.v))
       ELSE Null

-----------------------------------------------------------------------------
(* repairDate.  new Date(string) is modelled for the ISO calendar date      *)
(* YYYY-MM-DD (read as UTC midnight), for "Month D, YYYY" with the month    *)
(* recognised by its first three letters (read as local midnight), and for  *)
(* strings without digits (invalid).                                        *)

MonthAbbr ==
    << <<"J", "a", "n">>, <<"F", "e", "b">>, <<"M", "a", "r">>,
       <<"A", "p", "r">>, <<"M", "a", "y">>, <<"J", "u", "n">>,
       <<"J", "u", "l">>, <<"A", "u", "g">>, <<"S", "e", "p">>,
       <<"O", "c", "t">>, <<"N", "o", "v">>, <<"D", "e", "c">> >>

IsLeap(y) == (y % 4 = 0 /\ y % 100 # 0) \/ y % 400 = 0

DaysInMonth(y, m) ==
    IF m = 2 THEN (IF IsLeap(y) THEN 29 ELSE 28)
    ELSE IF m \in {4, 6, 9, 11} THEN 30 ELSE 31

InvalidDate == [ok |-> FALSE, y |-> 0, m |-> 0, d |-> 0, local |-> FALSE]

ParseIsoDate(s) ==
    IF Len(s) = 10 /\ s[5] = "-" /\ s[8] = "-"
       /\ \A i \in {1, 2, 3, 4, 6, 7, 9, 10} : s[i] \in Digits
    THEN LET y == DigitsVal(SubSeq(s, 1, 4))
             m == DigitsVal(SubSeq(s, 6, 7))
             d == DigitsVal(SubSeq(s, 9, 10))
         IN IF m \in 1..12 /\ d \in 1..DaysInMonth(y, m)
            THEN [ok |-> TRUE, y |-> y, m |-> m, d |-> d, local |-> FALSE]
            ELSE InvalidDate
    ELSE InvalidDate

ParseHumanDate(s) ==
    LET Skip(i, S) == i + RunLen(s, i, S)
        SkipComma(i) == IF i <= Len(s) /\ s[i] = "," THEN i + 1 ELSE i
        Checked(y, m, d) ==
            IF d \in 1..DaysInMonth(y, m)
            THEN [ok |-> TRUE, y |-> y, m |-> m, d |-> d, local |-> TRUE]
            ELSE InvalidDate
        Named(months, y, d) ==
            IF months # {} THEN Checked(y, CHOOSE i \in months : TRUE, d)
            ELSE InvalidDate
        \* the month name is s[1..a-1], the day s[b..c-1], the year s[e..f-1]
        Fields(a, b, c, e, f) ==
            IF b - a >= 1 /\ c - b \in {1, 2} /\ e - c >= 1
               /\ f - e = 4 /\ f = Len(s) + 1
            THEN Named({i \in 1..12 : a >= 4 /\ SubSeq(s, 1, 3) = MonthAbbr[i]},
                       DigitsVal(SubSeq(s, e, f - 1)),
                       DigitsVal(SubSeq(s, b, c - 1)))
            ELSE InvalidDate
        AfterSeparator(a, b, c, e) == Fields(a, b, c, e, Skip(e, Digits))
        AfterDay(a, b, c) == AfterSeparator(a, b, c, Skip(SkipComma(c), {" "}))
        AfterSpaces(a, b) == AfterDay(a, b, Skip(b, Digits))
        AfterMonth(a) == AfterSpaces(a, Skip(a, {" "}))
    IN AfterMonth(Skip(1, Letters))

\* new Date(s)
ParseDate(s) ==
    LET Or(iso) == IF iso.ok THEN iso ELSE ParseHumanDate(s)
    IN Or(ParseIsoDate(s))

PrevDay(t) ==
    IF t.d > 1 THEN [t EXCEPT !.d = t.d - 1]
    ELSE IF t.m > 1 THEN [t EXCEPT !.m = t.m - 1, !.d = DaysInMonth(t.y, t.m - 1)]
    ELSE [t EXCEPT !.y = t.y - 1, !.m = 12, !.d = 31]

\* parsed.toISOString().split('T')[0] on a host tz hours east of UTC: local
\* midnight lies on the previous UTC day east of Greenwich
IsoDatePart(t, tz) ==
    LET u == IF t.local /\ tz > 0 THEN PrevDay(t) ELSE t
    IN PadChars(u.y, 4) \o <<"-">> \o PadChars(u.m, 2) \o <<"-">> \o PadChars(u.d, 2)

repairDate(date, tz) ==
    LET Iso(parsed) == IF parsed.ok THEN Str(IsoDatePart(parsed, tz)) ELSE date
    IN IF ~Truthy(date) THEN Null ELSE Iso(ParseDate(date.v))

-----------------------------------------------------------------------------
(* The Zod schemas of definitions.ts.  A schema is [t, nullable, arg]; the  *)
(* fields of an object schema are a sequence of <<key, schema>> in the      *)
(* order of declaration, which is the order Zod reports issues in.          *)

Leaf(t) == [t |-> t, nullable |-> FALSE, arg |-> <<>>]
Nullable(s) == [s EXCEPT !.nullable = TRUE]
ZString == Leaf("string")
ZBoolean == Leaf("boolean")
ZEnum(vals) == [t |-> "enum", nullable |-> FALSE, arg |-> vals]
ZArray(el) == [t |-> "array", nullable |-> FALSE, arg |-> el]
ZObject(fields) == [t |-> "object", nullable |-> FALSE, arg |-> fields]
ZUnion(a, b) == [t |-> "union", nullable |-> FALSE, arg |-> <<a, b>>]
\* z.literal(x).default(x): absent is accepted, another value is not
ZLiteralDefault(x) == [t |-> "literal", nullable |-> FALSE, arg |-> x]

numericString == Nullable(Leaf("numeric"))
urlString == Nullable(Leaf("url"))
isoDate == Nullable(ZString)

SchemaOrg == <<"h", "t", "t", "p", "s", ":", "/", "/", "s", "c", "h", "e", "m", "a", ".", "o", "r", "g", "/">>
PersonOrOrgNames == <<<<"P", "e", "r", "s", "o", "n">>, <<"O", "r", "g", "a", "n", "i", "z", "a", "t", "i", "o", "n">>>>

personOrOrg ==
    Nullable(ZObject(<< <<"type", Nullable(ZEnum(PersonOrOrgNames))>>,
                        <<"name", Nullable(ZString)>>,
                        <<"url", urlString>> >>))

BrandSchema == Nullable(ZObject(<< <<"name", Nullable(ZString)>> >>))

AggregateRatingSchema ==
    Nullable(ZObject(<< <<"ratingValue", numericString>>,
                        <<"reviewCount", numericString>>,
                        <<"bestRating", numericString>>,
                        <<"worstRating", numericString>> >>))

AvailabilityValues ==
    << SchemaOrg \o <<"I", "n", "S", "t", "o", "c", "k">>, SchemaOrg \o <<"O", "u", "t", "O", "f", "S", "t", "o", "c", "k">>,
       SchemaOrg \o <<"P", "r", "e", "O", "r", "d", "e", "r">>, SchemaOrg \o <<"S", "o", "l", "d", "O", "u", "t">>,
       SchemaOrg \o <<"B", "a", "c", "k", "O", "r", "d", "e", "r">>, SchemaOrg \o <<"D", "i", "s", "c", "o", "n", "t", "i", "n", "u", "e", "d">>,
       SchemaOrg \o <<"L", "i", "m", "i", "t", "e", "d", "A", "v", "a", "i", "l", "a", "b", "i", "l", "i", "t", "y">> >>

ItemConditionValues ==
    << SchemaOrg \o <<"N", "e", "w", "C", "o", "n", "d", "i", "t", "i", "o", "n">>, SchemaOrg \o <<"U", "s", "e", "d", "C", "o", "n", "d", "i", "t", "i", "o", "n">>,
       SchemaOrg \o <<"R", "e", "f", "u", "r", "b", "i", "s", "h", "e", "d", "C", "o", "n", "d", "i", "t", "i", "o", "n">>, SchemaOrg \o <<"D", "a", "m", "a", "g", "e", "d", "C", "o", "n", "d", "i", "t", "i", "o", "n">> >>

ReturnPolicyValues ==
    << SchemaOrg \o <<"M", "e", "r", "c", "h", "a", "n", "t", "R", "e", "t", "u", "r", "n", "F", "i", "n", "i", "t", "e", "R", "e", "t", "u", "r", "n", "W", "i", "n", "d", "o", "w">>,
       SchemaOrg \o <<"M", "e", "r", "c", "h", "a", "n", "t", "R", "e", "t", "u", "r", "n", "N", "o", "t", "P", "e", "r", "m", "i", "t", "t", "e", "d">>,
       SchemaOrg \o <<"M", "e", "r", "c", "h", "a", "n", "t", "R", "e", "t", "u", "r", "n", "U", "n", "l", "i", "m", "i", "t", "e", "d", "W", "i", "n", "d", "o", "w">> >>

OfferSchema ==
    Nullable(ZObject(<<
        <<"price", numericString>>,
        <<"priceCurrency", Nullable(ZString)>>,
        <<"availability", Nullable(ZEnum(AvailabilityValues))>>,
        <<"url", urlString>>,
        <<"priceValidUntil", isoDate>>,
        <<"itemCondition", Nullable(ZEnum(ItemConditionValues))>>,
        <<"sku", Nullable(ZString)>>,
        <<"seller", Nullable(ZObject(<< <<"name", Nullable(ZString)>> >>))>>,
        <<"shippingDetails", Nullable(ZObject(<<
            <<"shippingRate", Nullable(ZObject(<<
                <<"value", numericString>>,
                <<"currency", Nullable(ZString)>> >>))>>,
            <<"deliveryTime", Nullable(ZObject(<<
                <<"minValue", numericString>>,
                <<"maxValue", numericString>>,
                <<"unitCode", Nullable(ZString)>> >>))>> >>))>>,
        <<"hasMerchantReturnPolicy", Nullable(ZObject(<<
            <<"returnPolicyCategory", Nullable(ZEnum(ReturnPolicyValues))>>,
            <<"merchantReturnDays", numericString>> >>))>> >>))

ReviewSchema ==
    ZObject(<<
        <<"author", Nullable(ZObject(<< <<"name", Nullable(ZString)>> >>))>>,
        <<"reviewRating", Nullable(ZObject(<<
            <<"ratingValue", numericString>>,
            <<"bestRating", numericString>> >>))>>,
        <<"reviewBody", Nullable(ZString)>>,
        <<"datePublished", isoDate>> >>)

ProductSchema ==
    ZObject(<<
        <<"name", Nullable(ZString)>>,
        <<"image", Nullable(ZArray(ZString))>>,
        <<"description", Nullable(ZString)>>,
        <<"brand", BrandSchema>>,
        <<"offers", Nullable(ZUnion(OfferSchema, ZArray(OfferSchema)))>>,
        <<"aggregateRating", AggregateRatingSchema>>,
        <<"sku", Nullable(ZString)>>,
        <<"gtin", Nullable(ZString)>>,
        <<"mpn", Nullable(ZString)>>,
        <<"productID", Nullable(ZString)>>,
        <<"color", Nullable(ZString)>>,
        <<"size", Nullable(ZString)>>,
        <<"material", Nullable(ZString)>>,
        <<"pattern", Nullable(ZString)>>,
        <<"weight", Nullable(ZObject(<<
            <<"value", numericString>>,
            <<"unitCode", Nullable(ZString)>> >>))>>,
        <<"category", Nullable(ZString)>>,
        <<"review", Nullable(ZArray(ReviewSchema))>> >>)

HowToStepLiteral == <<"H", "o", "w", "T", "o", "S", "t", "e", "p">>

RecipeSchema ==
    ZObject(<<
        <<"name", Nullable(ZString)>>,
        <<"image", Nullable(ZArray(ZString))>>,
        <<"author", personOrOrg>>,
        <<"datePublished", isoDate>>,
        <<"prepTime", Nullable(ZString)>>,
        <<"cookTime", Nullable(ZString)>>,
        <<"totalTime", Nullable(ZString)>>,
        <<"recipeYield", Nullable(ZString)>>,
        <<"nutrition", Nullable(ZObject(<<
            <<"calories", Nullable(ZString)>>,
            <<"proteinContent", Nullable(ZString)>> >>))>>,
        <<"recipeIngredient", Nullable(ZArray(ZString))>>,
        <<"recipeInstructions", Nullable(ZArray(ZObject(<<
            <<"type", ZLiteralDefault(HowToStepLiteral)>>,
            <<"text", Nullable(ZString)>> >>)))>> >>)

EventStatusValues ==
    << SchemaOrg \o <<"E", "v", "e", "n", "t", "S", "c", "h", "e", "d", "u", "l", "e", "d">>, SchemaOrg \o <<"E", "v", "e", "n", "t", "C", "a", "n", "c", "e", "l", "l", "e", "d">>,
       SchemaOrg \o <<"E", "v", "e", "n", "t", "M", "o", "v", "e", "d", "O", "n", "l", "i", "n", "e">>, SchemaOrg \o <<"E", "v", "e", "n", "t", "P", "o", "s", "t", "p", "o", "n", "e", "d">> >>

EventSchema ==
    ZObject(<<
        <<"name", Nullable(ZString)>>,
        <<"startDate", isoDate>>,
        <<"endDate", isoDate>>,
        <<"eventStatus", Nullable(ZEnum(EventStatusValues))>>,
        <<"location", Nullable(ZObject(<<
            <<"name", Nullable(ZString)>>,
            <<"address", Nullable(ZObject(<<
                <<"streetAddress", Nullable(ZString)>>,
                <<"addressLocality", Nullable(ZString)>>,
                <<"addressCountry", Nullable(ZString)>> >>))>> >>))>>,
        <<"offers", Nullable(ZObject(<<
            <<"price", numericString>>,
            <<"priceCurrency", Nullable(ZString)>>,
            <<"url", urlString>> >>))>> >>)

LocalBusinessSchema ==
    ZObject(<<
        <<"name", Nullable(ZString)>>,
        <<"image", Nullable(ZArray(ZString))>>,
        <<"telephone", Nullable(ZString)>>,
        <<"address", Nullable(ZObject(<<
            <<"streetAddress", Nullable(ZString)>>,
            <<"addressLocality", Nullable(ZString)>>,
            <<"addressRegion", Nullable(ZString)>>,
            <<"postalCode", Nullable(ZString)>> >>))>>,
        <<"geo", Nullable(ZObject(<<
            <<"latitude", numericString>>,
            <<"longitude", numericString>> >>))>>,
        <<"openingHours", Nullable(ZArray(ZString))>>,
        <<"priceRange", Nullable(ZString)>> >>)

ArticleSchema ==
    ZObject(<<
        <<"headline", Nullable(ZString)>>,
        <<"alternativeHeadline", Nullable(ZString)>>,
        <<"description", Nullable(ZString)>>,
        <<"image", Nullable(ZArray(ZString))>>,
        <<"author", Nullable(ZObject(<<
            <<"type", Nullable(ZEnum(PersonOrOrgNames))>>,
            <<"name", Nullable(ZString)>>,
            <<"url", urlString>> >>))>>,
        <<"additionalAuthors", Nullable(ZArray(ZObject(<<
            <<"type", Nullable(ZEnum(PersonOrOrgNames))>>,
            <<"name", Nullable(ZString)>>,
            <<"url", urlString>> >>)))>>,
        <<"publisher", Nullable(ZObject(<<
            <<"name", Nullable(ZString)>>,
            <<"logoUrl", urlString>>,
            <<"logoWidth", numericString>>,
            <<"logoHeight", numericString>> >>))>>,
        <<"datePublished", isoDate>>,
        <<"dateModified", isoDate>>,
        <<"articleSection", Nullable(ZString)>>,
        <<"keywords", Nullable(ZArray(ZString))>>,
        <<"wordCount", numericString>>,
        <<"isAccessibleForFree", Nullable(ZBoolean)>>,
        <<"mainEntityOfPage", urlString>>,
        <<"inLanguage", Nullable(ZString)>>,
        <<"copyrightHolder", Nullable(ZString)>>,
        <<"copyrightYear", numericString>>,
        <<"thumbnailUrl", urlString>> >>)

FAQSchema ==
    ZObject(<<
        <<"mainEntity", Nullable(ZArray(ZObject(<<
            <<"type", ZLiteralDefault(<<"Q", "u", "e", "s", "t", "i", "o", "n">>)>>,
            <<"name", Nullable(ZString)>>,
            <<"acceptedAnswer", Nullable(ZObject(<<
                <<"type", ZLiteralDefault(<<"A", "n", "s", "w", "e", "r">>)>>,
                <<"text", Nullable(ZString)>> >>))>> >>)))>> >>)

HowToSchema ==
    ZObject(<<
        <<"name", Nullable(ZString)>>,
        <<"step", Nullable(ZArray(ZObject(<<
            <<"type", ZLiteralDefault(HowToStepLiteral)>>,
            <<"url", urlString>>,
            <<"name", Nullable(ZString)>>,
            <<"text", Nullable(ZString)>>,
            <<"image", urlString>> >>)))>>,
        <<"totalTime", Nullable(ZString)>>,
        <<"tool", Nullable(ZArray(ZObject(<< <<"name", Nullable(ZString)>> >>)))>>,
        <<"supply", Nullable(ZArray(ZObject(<< <<"name", Nullable(ZString)>> >>)))>> >>)

WebPageSchema ==
    ZObject(<<
        <<"name", Nullable(ZString)>>,
        <<"description", Nullable(ZString)>>,
        <<"datePublished", isoDate>>,
        <<"dateModified", isoDate>>,
        <<"breadcrumb", Nullable(ZArray(ZString))>> >>)

T_Product == <<"P", "r", "o", "d", "u", "c", "t">>
T_Recipe == <<"R", "e", "c", "i", "p", "e">>
T_Event == <<"E", "v", "e", "n", "t">>
T_LocalBusiness == <<"L", "o", "c", "a", "l", "B", "u", "s", "i", "n", "e", "s", "s">>
T_FAQPage == <<"F", "A", "Q", "P", "a", "g", "e">>
T_Article == <<"A", "r", "t", "i", "c", "l", "e">>
T_BlogPosting == <<"B", "l", "o", "g", "P", "o", "s", "t", "i", "n", "g">>
T_HowTo == <<"H", "o", "w", "T", "o">>
T_WebPage == <<"W", "e", "b", "P", "a", "g", "e">>

DetectedTypes ==
    <<T_Product, T_Recipe, T_Event, T_LocalBusiness, T_FAQPage, T_Article,
      T_BlogPosting, T_HowTo, T_WebPage>>

ExtractionSchema ==
    ZObject(<<
        <<"detectedType", ZEnum(DetectedTypes)>>,
        <<"product", Nullable(ProductSchema)>>,
        <<"recipe", Nullable(RecipeSchema)>>,
        <<"event", Nullable(EventSchema)>>,
        <<"localBusiness", Nullable(LocalBusinessSchema)>>,
        <<"faq", Nullable(FAQSchema)>>,
        <<"article", Nullable(ArticleSchema)>>,
        <<"blogPosting", Nullable(ArticleSchema)>>,
        <<"howto", Nullable(HowToSchema)>>,
        <<"webPage", Nullable(WebPageSchema)>> >>)

InSeq(x, s) == \E i \in 1..Len(s) : s[i] = x

\* the key of a path segment as characters; keys are the names used above
KeyChars(key) ==
    CASE key = "type" -> <<"t", "y", "p", "e">>
      [] key = "name" -> <<"n", "a", "m", "e">>
      [] key = "url" -> <<"u", "r", "l">>
      [] key = "ratingValue" -> <<"r", "a", "t", "i", "n", "g", "V", "a", "l", "u", "e">>
      [] key = "reviewCount" -> <<"r", "e", "v", "i", "e", "w", "C", "o", "u", "n", "t">>
      [] key = "bestRating" -> <<"b", "e", "s", "t", "R", "a", "t", "i", "n", "g">>
      [] key = "worstRating" -> <<"w", "o", "r", "s", "t", "R", "a", "t", "i", "n", "g">>
      [] key = "price" -> <<"p", "r", "i", "c", "e">>
      [] key = "priceCurrency" -> <<"p", "r", "i", "c", "e", "C", "u", "r", "r", "e", "n", "c", "y">>
      [] key = "availability" -> <<"a", "v", "a", "i", "l", "a", "b", "i", "l", "i", "t", "y">>
      [] key = "priceValidUntil" -> <<"p", "r", "i", "c", "e", "V", "a", "l", "i", "d", "U", "n", "t", "i", "l">>
      [] key = "itemCondition" -> <<"i", "t", "e", "m", "C", "o", "n", "d", "i", "t", "i", "o", "n">>
      [] key = "sku" -> <<"s", "k", "u">>
      [] key = "seller" -> <<"s", "e", "l", "l", "e", "r">>
      [] key = "shippingDetails" -> <<"s", "h", "i", "p", "p", "i", "n", "g", "D", "e", "t", "a", "i", "l", "s">>
      [] key = "shippingRate" -> <<"s", "h", "i", "p", "p", "i", "n", "g", "R", "a", "t", "e">>
      [] key = "value" -> <<"v", "a", "l", "u", "e">>
      [] key = "currency" -> <<"c", "u", "r", "r", "e", "n", "c", "y">>
      [] key = "deliveryTime" -> <<"d", "e", "l", "i", "v", "e", "r", "y", "T", "i", "m", "e">>
      [] key = "minValue" -> <<"m", "i", "n", "V", "a", "l", "u", "e">>
      [] key = "maxValue" -> <<"m", "a", "x", "V", "a", "l", "u", "e">>
      [] key = "unitCode" -> <<"u", "n", "i", "t", "C", "o", "d", "e">>
      [] key = "hasMerchantReturnPolicy" -> <<"h", "a", "s", "M", "e", "r", "c", "h", "a", "n", "t", "R", "e", "t", "u", "r", "n", "P", "o", "l", "i", "c", "y">>
      [] key = "returnPolicyCategory" -> <<"r", "e", "t", "u", "r", "n", "P", "o", "l", "i", "c", "y", "C", "a", "t", "e", "g", "o", "r", "y">>
      [] key = "merchantReturnDays" -> <<"m", "e", "r", "c", "h", "a", "n", "t", "R", "e", "t", "u", "r", "n", "D", "a", "y", "s">>
      [] key = "author" -> <<"a", "u", "t", "h", "o", "r">>
      [] key = "reviewRating" -> <<"r", "e", "v", "i", "e", "w", "R", "a", "t", "i", "n", "g">>
      [] key = "reviewBody" -> <<"r", "e", "v", "i", "e", "w", "B", "o", "d", "y">>
      [] key = "datePublished" -> <<"d", "a", "t", "e", "P", "u", "b", "l", "i", "s", "h", "e", "d">>
      [] key = "image" -> <<"i", "m", "a", "g", "e">>
      [] key = "description" -> <<"d", "e", "s", "c", "r", "i", "p", "t", "i", "o", "n">>
      [] key = "brand" -> <<"b", "r", "a", "n", "d">>
      [] key = "offers" -> <<"o", "f", "f", "e", "r", "s">>
      [] key = "aggregateRating" -> <<"a", "g", "g", "r", "e", "g", "a", "t", "e", "R", "a", "t", "i", "n", "g">>
      [] key = "gtin" -> <<"g", "t", "i", "n">>
      [] key = "mpn" -> <<"m", "p", "n">>
      [] key = "productID" -> <<"p", "r", "o", "d", "u", "c", "t", "I", "D">>
      [] key = "color" -> <<"c", "o", "l", "o", "r">>
      [] key = "size" -> <<"s", "i", "z", "e">>
      [] key = "material" -> <<"m", "a", "t", "e", "r", "i", "a", "l">>
      [] key = "pattern" -> <<"p", "a", "t", "t", "e", "r", "n">>
      [] key = "weight" -> <<"w", "e", "i", "g", "h", "t">>
      [] key = "category" -> <<"c", "a", "t", "e", "g", "o", "r", "y">>
      [] key = "review" -> <<"r", "e", "v", "i", "e", "w">>
      [] key = "prepTime" -> <<"p", "r", "e", "p", "T", "i", "m", "e">>
      [] key = "cookTime" -> <<"c", "o", "o", "k", "T", "i", "m", "e">>
      [] key = "totalTime" -> <<"t", "o", "t", "a", "l", "T", "i", "m", "e">>
      [] key = "recipeYield" -> <<"r", "e", "c", "i", "p", "e", "Y", "i", "e", "l", "d">>
      [] key = "nutrition" -> <<"n", "u", "t", "r", "i", "t", "i", "o", "n">>
      [] key = "calories" -> <<"c", "a", "l", "o", "r", "i", "e", "s">>
      [] key = "proteinContent" -> <<"p", "r", "o", "t", "e", "i", "n", "C", "o", "n", "t", "e", "n", "t">>
      [] key = "recipeIngredient" -> <<"r", "e", "c", "i", "p", "e", "I", "n", "g", "r", "e", "d", "i", "e", "n", "t">>
      [] key = "recipeInstructions" -> <<"r", "e", "c", "i", "p", "e", "I", "n", "s", "t", "r", "u", "c", "t", "i", "o", "n", "s">>
      [] key = "text" -> <<"t", "e", "x", "t">>
      [] key = "startDate" -> <<"s", "t", "a", "r", "t", "D", "a", "t", "e">>
      [] key = "endDate" -> <<"e", "n", "d", "D", "a", "t", "e">>
      [] key = "eventStatus" -> <<"e", "v", "e", "n", "t", "S", "t", "a", "t", "u", "s">>
      [] key = "location" -> <<"l", "o", "c", "a", "t", "i", "o", "n">>
      [] key = "address" -> <<"a", "d", "d", "r", "e", "s", "s">>
      [] key = "streetAddress" -> <<"s", "t", "r", "e", "e", "t", "A", "d", "d", "r", "e", "s", "s">>
      [] key = "addressLocality" -> <<"a", "d", "d", "r", "e", "s", "s", "L", "o", "c", "a", "l", "i", "t", "y">>
      [] key = "addressCountry" -> <<"a", "d", "d", "r", "e", "s", "s", "C", "o", "u", "n", "t", "r", "y">>
      [] key = "telephone" -> <<"t", "e", "l", "e", "p", "h", "o", "n", "e">>
      [] key = "addressRegion" -> <<"a", "d", "d", "r", "e", "s", "s", "R", "e", "g", "i", "o", "n">>
      [] key = "postalCode" -> <<"p", "o", "s", "t", "a", "l", "C", "o", "d", "e">>
      [] key = "geo" -> <<"g", "e", "o">>
      [] key = "latitude" -> <<"l", "a", "t", "i", "t", "u", "d", "e">>
      [] key = "longitude" -> <<"l", "o", "n", "g", "i", "t", "u", "d", "e">>
      [] key = "openingHours" -> <<"o", "p", "e", "n", "i", "n", "g", "H", "o", "u", "r", "s">>
      [] key = "priceRange" -> <<"p", "r", "i", "c", "e", "R", "a", "n", "g", "e">>
      [] key = "headline" -> <<"h", "e", "a", "d", "l", "i", "n", "e">>
      [] key = "alternativeHeadline" -> <<"a", "l", "t", "e", "r", "n", "a", "t", "i", "v", "e", "H", "e", "a", "d", "l", "i", "n", "e">>
      [] key = "additionalAuthors" -> <<"a", "d", "d", "i", "t", "i", "o", "n", "a", "l", "A", "u", "t", "h", "o", "r", "s">>
      [] key = "publisher" -> <<"p", "u", "b", "l", "i", "s", "h", "e", "r">>
      [] key = "logoUrl" -> <<"l", "o", "g", "o", "U", "r", "l">>
      [] key = "logoWidth" -> <<"l", "o", "g", "o", "W", "i", "d", "t", "h">>
      [] key = "logoHeight" -> <<"l", "o", "g", "o", "H", "e", "i", "g", "h", "t">>
      [] key = "dateModified" -> <<"d", "a", "t", "e", "M", "o", "d", "i", "f", "i", "e", "d">>
      [] key = "articleSection" -> <<"a", "r", "t", "i", "c", "l", "e", "S", "e", "c", "t", "i", "o", "n">>
      [] key = "keywords" -> <<"k", "e", "y", "w", "o", "r", "d", "s">>
      [] key = "wordCount" -> <<"w", "o", "r", "d", "C", "o", "u", "n", "t">>
      [] key = "isAccessibleForFree" -> <<"i", "s", "A", "c", "c", "e", "s", "s", "i", "b", "l", "e", "F", "o", "r", "F", "r", "e", "e">>
      [] key = "mainEntityOfPage" -> <<"m", "a", "i", "n", "E", "n", "t", "i", "t", "y", "O", "f", "P", "a", "g", "e">>
      [] key = "inLanguage" -> <<"i", "n", "L", "a", "n", "g", "u", "a", "g", "e">>
      [] key = "copyrightHolder" -> <<"c", "o", "p", "y", "r", "i", "g", "h", "t", "H", "o", "l", "d", "e", "r">>
      [] key = "copyrightYear" -> <<"c", "o", "p", "y", "r", "i", "g", "h", "t", "Y", "e", "a", "r">>
      [] key = "thumbnailUrl" -> <<"t", "h", "u", "m", "b", "n", "a", "i", "l", "U", "r", "l">>
      [] key = "mainEntity" -> <<"m", "a", "i", "n", "E", "n", "t", "i", "t", "y">>
      [] key = "acceptedAnswer" -> <<"a", "c", "c", "e", "p", "t", "e", "d", "A", "n", "s", "w", "e", "r">>
      [] key = "step" -> <<"s", "t", "e", "p">>
      [] key = "tool" -> <<"t", "o", "o", "l">>
      [] key = "supply" -> <<"s", "u", "p", "p", "l", "y">>
      [] key = "breadcrumb" -> <<"b", "r", "e", "a", "d", "c", "r", "u", "m", "b">>
      [] key = "detectedType" -> <<"d", "e", "t", "e", "c", "t", "e", "d", "T", "y", "p", "e">>
      [] key = "product" -> <<"p", "r", "o", "d", "u", "c", "t">>
      [] key = "recipe" -> <<"r", "e", "c", "i", "p", "e">>
      [] key = "event" -> <<"e", "v", "e", "n", "t">>
      [] key = "localBusiness" -> <<"l", "o", "c", "a", "l", "B", "u", "s", "i", "n", "e", "s", "s">>
      [] key = "faq" -> <<"f", "a", "q">>
      [] key = "article" -> <<"a", "r", "t", "i", "c", "l", "e">>
      [] key = "blogPosting" -> <<"b", "l", "o", "g", "P", "o", "s", "t", "i", "n", "g">>
      [] key = "howto" -> <<"h", "o", "w", "t", "o">>
      [] key = "webPage" -> <<"w", "e", "b", "P", "a", "g", "e">>

\* Zod's name for the type of a value
ZodTypeName(x) ==
    CASE x.k = "str" -> <<"s", "t", "r", "i", "n", "g">> [] x.k = "num" -> <<"n", "u", "m", "b", "e", "r">>
      [] x.k = "nan" -> <<"n", "a", "n">> [] x.k = "bool" -> <<"b", "o", "o", "l", "e", "a", "n">>
      [] x.k = "arr" -> <<"a", "r", "r", "a", "y">> [] x.k = "obj" -> <<"o", "b", "j", "e", "c", "t">>
      [] x.k = "null" -> <<"n", "u", "l", "l">> [] x.k = "undefined" -> <<"u", "n", "d", "e", "f", "i", "n", "e", "d">>

Issue(path, message) == [path |-> path, message |-> message]

TypeIssue(path, expected, x) ==
    Issue(path, IF x.k = "undefined" THEN <<"R", "e", "q", "u", "i", "r", "e", "d">>
                ELSE <<"E", "x", "p", "e", "c", "t", "e", "d", " ">> \o expected \o <<",", " ", "r", "e", "c", "e", "i", "v", "e", "d", " ">> \o ZodTypeName(x))

\* the issues of schema.safeParse(x), each with its path, in Zod's order
RECURSIVE ZodIssues(_, _, _)
RECURSIVE ZodFieldIssues(_, _, _, _)
RECURSIVE ZodElementIssues(_, _, _, _)
ZodIssues(schema, x, path) ==
    IF x.k = "null" /\ schema.nullable THEN <<>>
    ELSE CASE schema.t = "string" ->
                IF x.k = "str" THEN <<>> ELSE <<TypeIssue(path, <<"s", "t", "r", "i", "n", "g">>, x)>>
           [] schema.t = "url" ->
                IF x.k # "str" THEN <<TypeIssue(path, <<"s", "t", "r", "i", "n", "g">>, x)>>
                ELSE IF ParseUrl(x.v).ok THEN <<>>
                ELSE <<Issue(path, <<"I", "n", "v", "a", "l", "i", "d", " ", "u", "r", "l">>)>>
           [] schema.t = "boolean" ->
                IF x.k = "bool" THEN <<>> ELSE <<TypeIssue(path, <<"b", "o", "o", "l", "e", "a", "n">>, x)>>
           [] schema.t = "numeric" ->
                IF x.k \in {"str", "num"} THEN <<>>
                ELSE <<Issue(path, <<"I", "n", "v", "a", "l", "i", "d", " ", "i", "n", "p", "u", "t">>)>>
           [] schema.t = "enum" ->
                IF x.k = "str" /\ InSeq(x.v, schema.arg) THEN <<>>
                ELSE IF x.k = "str" THEN <<Issue(path, <<"I", "n", "v", "a", "l", "i", "d", " ", "e", "n", "u", "m", " ", "v", "a", "l", "u", "e">>)>>
                ELSE <<TypeIssue(path, <<"e", "n", "u", "m">>, x)>>
           [] schema.t = "literal" ->
                IF x.k = "undefined" \/ (x.k = "str" /\ x.v = schema.arg) THEN <<>>
                ELSE <<Issue(path, <<"I", "n", "v", "a", "l", "i", "d", " ", "l", "i", "t", "e", "r", "a", "l", " ", "v", "a", "l", "u", "e">>)>>
           [] schema.t = "union" ->
                IF ZodIssues(schema.arg[1], x, path) = <<>>
                   \/ ZodIssues(schema.arg[2], x, path) = <<>>
                THEN <<>> ELSE <<Issue(path, <<"I", "n", "v", "a", "l", "i", "d", " ", "i", "n", "p", "u", "t">>)>>
           [] schema.t = "array" ->
                IF x.k = "arr" THEN ZodElementIssues(schema.arg, x.v, path, 1)
                ELSE <<TypeIssue(path, <<"a", "r", "r", "a", "y">>, x)>>
           [] schema.t = "object" ->
                \* keys the schema does not declare are ignored
                IF x.k = "obj" THEN ZodFieldIssues(schema.arg, x, path, 1)
                ELSE <<TypeIssue(path, <<"o", "b", "j", "e", "c", "t">>, x)>>
ZodFieldIssues(fields, x, path, i) ==
    IF i > Len(fields) THEN <<>>
    ELSE ZodIssues(fields[i][2], Get(x, fields[i][1]), path \o <<KeyChars(fields[i][1])>>)
         \o ZodFieldIssues(fields, x, path, i + 1)
ZodElementIssues(el, xs, path, i) ==
    IF i > Len(xs) THEN <<>>
    ELSE ZodIssues(el, xs[i], path \o <<NatChars(i - 1)>>)
         \o ZodElementIssues(el, xs, path, i + 1)

\* parts.join(sep) on strings
RECURSIVE Join(_, _)
Join(parts, sep) ==
    IF parts = <<>> THEN <<>>
    ELSE IF Len(parts) = 1 THEN parts[1]
    ELSE parts[1] \o sep \o Join(Tail(parts), sep)

\* `${e.path.join('.')}: ${e.message}`
IssueLine(e) == Join(e.path, <<".">>) \o <<":", " ">> \o e.message

-----------------------------------------------------------------------------
(* buildJsonLd.  A built object is an Obj; the keys a statement does not    *)
(* assign are outside its DOMAIN.  Each builder returns the object and the  *)
(* lines it pushed on the repairs log.                                      *)

NoKeys == [key \in {} |-> Null]

\* if (cond) jsonLd[key] = val
Put(cond, key, val) == IF cond THEN key :> val ELSE NoKeys

\* mutant: the truthiness test of the copy is dropped
RECURSIVE CopyTruthy_All(_, _)
CopyTruthy_All(src, keys) ==
    IF keys = <<>> THEN NoKeys
    ELSE (keys[1] :> Get(src, keys[1])) @@ CopyTruthy_All(src, Tail(keys))

\* if (src[key]) jsonLd[key] = src[key], for each key of keys
RECURSIVE CopyTruthy(_, _)
CopyTruthy(src, keys) ==
    IF keys = <<>> THEN NoKeys
    ELSE Put(Truthy(Get(src, keys[1])), keys[1], Get(src, keys[1]))
         @@ CopyTruthy(src, Tail(keys))

\* { '@type': t, ...obj }
Spread(t, obj) == Obj(obj.v @@ ("@type" :> Str(t)))

\* x || y
OrElse(x, y) == IF Truthy(x) THEN x ELSE y

MapSeq(F(_), s) == [i \in 1..Len(s) |-> F(s[i])]

FilterBoolean(s) == SelectSeq(s, Truthy)

RECURSIVE Flatten(_)
Flatten(ss) == IF ss = <<>> THEN <<>> ELSE ss[1] \o Flatten(Tail(ss))

Base(type) ==
    ("@context" :> Str(<<"h", "t", "t", "p", "s", ":", "/", "/", "s", "c", "h", "e", "m", "a", ".", "o", "r", "g">>)) @@ ("@type" :> type)

Built(f, repairs) == [jsonLd |-> Obj(f), repairs |-> repairs]

\* buildOffer of the Product case: [o, repairs], o = Null for a falsy offer
BuildOffer(offer, url, tz) ==
    LET Priced(price) ==
            [o |-> Obj(
                ("@type" :> Str(<<"O", "f", "f", "e", "r">>))
                @@ Put(price # Null, "price", price)
                @@ CopyTruthy(offer, <<"priceCurrency", "availability">>)
                @@ Put(Truthy(Get(offer, "url")), "url",
                       repairUrl(Get(offer, "url"), url))
                @@ Put(Truthy(Get(offer, "priceValidUntil")), "priceValidUntil",
                       repairDate(Get(offer, "priceValidUntil"), tz))
                @@ CopyTruthy(offer, <<"itemCondition", "sku">>)
                @@ Put(Truthy(Get(Get(offer, "seller"), "name")), "seller",
                       Obj(("@type" :> Str(<<"O", "r", "g", "a", "n", "i", "z", "a", "t", "i", "o", "n">>))
                           @@ ("name" :> Get(Get(offer, "seller"), "name"))))),
             repairs |-> IF price # Null
                         THEN << <<"R", "e", "p", "a", "i", "r", "e", "d", " ", "p", "r", "i", "c", "e", ":", " ">> \o StringOf(Get(offer, "price"))
                                 \o <<" ", "-", ">", " ">> \o StringOf(price) >>
                         ELSE <<>>]
    IN IF ~Truthy(offer) THEN [o |-> Null, repairs |-> <<>>]
       ELSE Priced(repairPrice(Get(offer, "price")))

\* mutant: offers read as a single object whatever its shape
BuildProductOffers_Single(offers, url, tz) ==
    LET One(b) == [keys |-> "offers" :> b.o, repairs |-> b.repairs]
    IN IF ~Truthy(offers) THEN [keys |-> NoKeys, repairs |-> <<>>]
       ELSE One(BuildOffer(offers, url, tz))

\* the offers statement of the Product case: an array stays an array (when an
\* offer is left), a single offer stays a single object
BuildProductOffers(offers, url, tz) ==
    LET Listed(objs) == Put(Len(objs) > 0, "offers", Arr(objs))
        All(built) ==
            [keys |-> Listed(FilterBoolean([i \in 1..Len(built) |-> built[i].o])),
             repairs |-> Flatten([i \in 1..Len(built) |-> built[i].repairs])]
        Each(kept) == All([i \in 1..Len(kept) |-> BuildOffer(kept[i], url, tz)])
        One(b) == [keys |-> Put(Truthy(b.o), "offers", b.o), repairs |-> b.repairs]
    IN IF ~Truthy(offers) THEN [keys |-> NoKeys, repairs |-> <<>>]
       ELSE IF offers.k = "arr" THEN Each(FilterBoolean(offers.v))
       ELSE One(BuildOffer(offers, url, tz))

BuildRating(r) ==
    LET Number(key, num) == Put(num # Null, key, num)
        Count(key, num) == Put(num # Null, key, IF num # Null THEN Floor(num) ELSE Null)
    IN Obj(("@type" :> Str(<<"A", "g", "g", "r", "e", "g", "a", "t", "e", "R", "a", "t", "i", "n", "g">>))
           @@ Number("ratingValue", repairPrice(Get(r, "ratingValue")))
           @@ Count("reviewCount", repairPrice(Get(r, "reviewCount")))
           @@ Number("bestRating", repairPrice(Get(r, "bestRating")))
           @@ Number("worstRating", repairPrice(Get(r, "worstRating"))))

BuildReview(r, tz) ==
    Obj(("@type" :> Str(<<"R", "e", "v", "i", "e", "w">>))
        @@ ("author" :>
              IF Truthy(Get(Get(r, "author"), "name"))
              THEN Obj(("@type" :> Str(<<"P", "e", "r", "s", "o", "n">>))
                       @@ ("name" :> Get(Get(r, "author"), "name")))
              ELSE Undefined)
        @@ ("reviewRating" :>
              IF Truthy(Get(r, "reviewRating"))
              THEN Obj(("@type" :> Str(<<"R", "a", "t", "i", "n", "g">>))
                       @@ ("ratingValue" :>
                             repairPrice(Get(Get(r, "reviewRating"), "ratingValue")))
                       @@ ("bestRating" :>
                             repairPrice(Get(Get(r, "reviewRating"), "bestRating"))))
              ELSE Undefined)
        @@ ("reviewBody" :> Get(r, "reviewBody"))
        @@ ("datePublished" :> repairDate(Get(r, "datePublished"), tz)))

BuildProduct(p, type, url, tz) ==
    LET offers == BuildProductOffers(Get(p, "offers"), url, tz)
        repairImage(img) == repairUrl(img, url)
        review(r) == BuildReview(r, tz)
    IN Built(
        Base(type)
        @@ CopyTruthy(p, <<"name", "description">>)
        @@ Put(HasLength(Get(p, "image")), "image",
               IF HasLength(Get(p, "image"))
               THEN Arr(FilterBoolean(MapSeq(repairImage, Get(p, "image").v)))
               ELSE Null)
        @@ Put(Truthy(Get(Get(p, "brand"), "name")), "brand",
               Obj(("@type" :> Str(<<"B", "r", "a", "n", "d">>))
                   @@ ("name" :> Get(Get(p, "brand"), "name"))))
        @@ CopyTruthy(p, <<"sku", "gtin", "mpn", "productID", "color", "size",
                           "material", "pattern", "category">>)
        @@ Put(Truthy(Get(p, "weight")) /\ Get(Get(p, "weight"), "value") # Null,
               "weight",
               Obj(("@type" :> Str(<<"Q", "u", "a", "n", "t", "i", "t", "a", "t", "i", "v", "e", "V", "a", "l", "u", "e">>))
                   @@ ("value" :> repairPrice(Get(Get(p, "weight"), "value")))
                   @@ ("unitCode" :> Get(Get(p, "weight"), "unitCode"))))
        @@ offers.keys
        @@ Put(Truthy(Get(p, "aggregateRating")), "aggregateRating",
               IF Truthy(Get(p, "aggregateRating"))
               THEN BuildRating(Get(p, "aggregateRating")) ELSE Null)
        @@ Put(HasLength(Get(p, "review")), "review",
               IF HasLength(Get(p, "review"))
               THEN Arr(MapSeq(review, FilterBoolean(Get(p, "review").v)))
               ELSE Null),
        offers.repairs)

BuildRecipe(r, type, tz) ==
    LET step(s) == Obj(("@type" :> Str(<<"H", "o", "w", "T", "o", "S", "t", "e", "p">>)) @@ ("text" :> Get(s, "text")))
    IN Built(
        Base(type)
        @@ CopyTruthy(r, <<"name">>)
        @@ Put(HasLength(Get(r, "image")), "image", Get(r, "image"))
        @@ Put(Truthy(Get(Get(r, "author"), "name")), "author",
               Obj(("@type" :> OrElse(Get(Get(r, "author"), "type"), Str(<<"P", "e", "r", "s", "o", "n">>)))
                   @@ ("name" :> Get(Get(r, "author"), "name"))))
        @@ Put(Truthy(Get(r, "datePublished")), "datePublished",
               repairDate(Get(r, "datePublished"), tz))
        @@ CopyTruthy(r, <<"prepTime", "cookTime", "totalTime", "recipeYield">>)
        @@ Put(Truthy(Get(r, "nutrition")), "nutrition",
               IF Truthy(Get(r, "nutrition"))
               THEN Spread(<<"N", "u", "t", "r", "i", "t", "i", "o", "n", "I", "n", "f", "o", "r", "m", "a", "t", "i", "o", "n">>, Get(r, "nutrition")) ELSE Null)
        @@ Put(HasLength(Get(r, "recipeIngredient")), "recipeIngredient",
               Get(r, "recipeIngredient"))
        @@ Put(HasLength(Get(r, "recipeInstructions")), "recipeInstructions",
               IF HasLength(Get(r, "recipeInstructions"))
               THEN Arr(MapSeq(step, Get(r, "recipeInstructions").v)) ELSE Null),
        IF Truthy(Get(r, "datePublished"))
        THEN << <<"R", "e", "p", "a", "i", "r", "e", "d", " ", "d", "a", "t", "e", "P", "u", "b", "l", "i", "s", "h", "e", "d", " ", "t", "o", " ", "I", "S", "O", " ", "f", "o", "r", "m", "a", "t">> >> ELSE <<>>)

BuildEvent(e, type, tz) ==
    LET location == Get(e, "location")
        offers == Get(e, "offers")
        price == repairPrice(Get(offers, "price"))
    IN Built(
        Base(type)
        @@ CopyTruthy(e, <<"name">>)
        @@ Put(Truthy(Get(e, "startDate")), "startDate",
               repairDate(Get(e, "startDate"), tz))
        @@ Put(Truthy(Get(e, "endDate")), "endDate",
               repairDate(Get(e, "endDate"), tz))
        @@ CopyTruthy(e, <<"eventStatus">>)
        @@ Put(Truthy(location), "location",
               Obj(("@type" :> Str(<<"P", "l", "a", "c", "e">>))
                   @@ CopyTruthy(location, <<"name">>)
                   @@ Put(Truthy(Get(location, "address")), "address",
                          IF Truthy(Get(location, "address"))
                          THEN Spread(<<"P", "o", "s", "t", "a", "l", "A", "d", "d", "r", "e", "s", "s">>, Get(location, "address"))
                          ELSE Null)))
        @@ Put(Truthy(offers), "offers",
               Obj(("@type" :> Str(<<"O", "f", "f", "e", "r">>))
                   @@ Put(price # Null, "price", price)
                   @@ CopyTruthy(offers, <<"priceCurrency", "url">>))),
        <<>>)

BuildLocalBusiness(b, type) ==
    LET lat == repairPrice(Get(Get(b, "geo"), "latitude"))
        lng == repairPrice(Get(Get(b, "geo"), "longitude"))
    IN Built(
        Base(type)
        @@ CopyTruthy(b, <<"name">>)
        @@ Put(HasLength(Get(b, "image")), "image", Get(b, "image"))
        @@ CopyTruthy(b, <<"telephone">>)
        @@ Put(Truthy(Get(b, "address")), "address",
               IF Truthy(Get(b, "address"))
               THEN Spread(<<"P", "o", "s", "t", "a", "l", "A", "d", "d", "r", "e", "s", "s">>, Get(b, "address")) ELSE Null)
        @@ Put(Truthy(Get(b, "geo")) /\ lat # Null /\ lng # Null, "geo",
               Obj(("@type" :> Str(<<"G", "e", "o", "C", "o", "o", "r", "d", "i", "n", "a", "t", "e", "s">>))
                   @@ ("latitude" :> lat) @@ ("longitude" :> lng)))
        @@ Put(HasLength(Get(b, "openingHours")), "openingHoursSpecification",
               Get(b, "openingHours"))
        @@ CopyTruthy(b, <<"priceRange">>),
        <<>>)

BuildArticle(a, type, url, tz) ==
    LET repairImage(img) == repairUrl(img, url)
        author == Obj(("@type" :> OrElse(Get(Get(a, "author"), "type"), Str(<<"P", "e", "r", "s", "o", "n">>)))
                      @@ ("name" :> Get(Get(a, "author"), "name"))
                      @@ ("url" :> repairUrl(Get(Get(a, "author"), "url"), url)))
        hasName(aa) == Truthy(Get(aa, "name"))
        coAuthor(aa) == Obj(("@type" :> OrElse(Get(aa, "type"), Str(<<"P", "e", "r", "s", "o", "n">>)))
                            @@ ("name" :> Get(aa, "name"))
                            @@ ("url" :> Get(aa, "url")))
        publisher == Get(a, "publisher")
    IN Built(
        Base(type)
        @@ CopyTruthy(a, <<"headline", "alternativeHeadline", "description">>)
        @@ Put(HasLength(Get(a, "image")), "image",
               IF HasLength(Get(a, "image"))
               THEN Arr(FilterBoolean(MapSeq(repairImage, Get(a, "image").v)))
               ELSE Null)
        @@ Put(Truthy(Get(Get(a, "author"), "name")), "author",
               IF HasLength(Get(a, "additionalAuthors"))
               THEN Arr(<<author>>
                        \o MapSeq(coAuthor,
                                  SelectSeq(Get(a, "additionalAuthors").v, hasName)))
               ELSE author)
        @@ Put(Truthy(Get(publisher, "name")), "publisher",
               Obj(("@type" :> Str(<<"O", "r", "g", "a", "n", "i", "z", "a", "t", "i", "o", "n">>))
                   @@ ("name" :> Get(publisher, "name"))
                   @@ Put(Truthy(Get(publisher, "logoUrl")), "logo",
                          Obj(("@type" :> Str(<<"I", "m", "a", "g", "e", "O", "b", "j", "e", "c", "t">>))
                              @@ ("url" :> repairUrl(Get(publisher, "logoUrl"), url))
                              @@ ("width" :> repairPrice(Get(publisher, "logoWidth")))
                              @@ ("height" :> repairPrice(Get(publisher, "logoHeight")))))))
        @@ Put(Truthy(Get(a, "datePublished")), "datePublished",
               repairDate(Get(a, "datePublished"), tz))
        @@ Put(Truthy(Get(a, "dateModified")), "dateModified",
               repairDate(Get(a, "dateModified"), tz))
        @@ CopyTruthy(a, <<"articleSection">>)
        @@ Put(HasLength(Get(a, "keywords")), "keywords", Get(a, "keywords"))
        @@ Put(Truthy(Get(a, "wordCount")), "wordCount",
               repairPrice(Get(a, "wordCount")))
        @@ Put(~IsNullish(Get(a, "isAccessibleForFree")), "isAccessibleForFree",
               Get(a, "isAccessibleForFree"))
        @@ Put(Truthy(Get(a, "mainEntityOfPage")), "mainEntityOfPage",
               repairUrl(Get(a, "mainEntityOfPage"), url))
        @@ CopyTruthy(a, <<"inLanguage", "copyrightHolder">>)
        @@ Put(Truthy(Get(a, "copyrightYear")), "copyrightYear",
               repairPrice(Get(a, "copyrightYear")))
        @@ Put(Truthy(Get(a, "thumbnailUrl")), "thumbnailUrl",
               repairUrl(Get(a, "thumbnailUrl"), url)),
        <<>>)

BuildFAQ(f, type) ==
    LET question(q) ==
            Obj(("@type" :> Str(<<"Q", "u", "e", "s", "t", "i", "o", "n">>))
                @@ ("name" :> Get(q, "name"))
                @@ ("acceptedAnswer" :>
                      IF Truthy(Get(q, "acceptedAnswer"))
                      THEN Obj(("@type" :> Str(<<"A", "n", "s", "w", "e", "r">>))
                               @@ ("text" :> Get(Get(q, "acceptedAnswer"), "text")))
                      ELSE Undefined))
    IN Built(
        Base(type)
        @@ Put(HasLength(Get(f, "mainEntity")), "mainEntity",
               IF HasLength(Get(f, "mainEntity"))
               THEN Arr(MapSeq(question, Get(f, "mainEntity").v)) ELSE Null),
        <<>>)

BuildHowTo(h, type) ==
    LET step(s) == Obj(("@type" :> Str(<<"H", "o", "w", "T", "o", "S", "t", "e", "p">>))
                       @@ ("name" :> Get(s, "name")) @@ ("text" :> Get(s, "text"))
                       @@ ("url" :> Get(s, "url")) @@ ("image" :> Get(s, "image")))
        tool(t) == Obj(("@type" :> Str(<<"H", "o", "w", "T", "o", "T", "o", "o", "l">>)) @@ ("name" :> Get(t, "name")))
        supply(s) == Obj(("@type" :> Str(<<"H", "o", "w", "T", "o", "S", "u", "p", "p", "l", "y">>)) @@ ("name" :> Get(s, "name")))
    IN Built(
        Base(type)
        @@ CopyTruthy(h, <<"name", "totalTime">>)
        @@ Put(HasLength(Get(h, "step")), "step",
               IF HasLength(Get(h, "step"))
               THEN Arr(MapSeq(step, Get(h, "step").v)) ELSE Null)
        @@ Put(HasLength(Get(h, "tool")), "tool",
               IF HasLength(Get(h, "tool"))
               THEN Arr(MapSeq(tool, Get(h, "tool").v)) ELSE Null)
        @@ Put(HasLength(Get(h, "supply")), "supply",
               IF HasLength(Get(h, "supply"))
               THEN Arr(MapSeq(supply, Get(h, "supply").v)) ELSE Null),
        <<>>)

BuildWebPage(w, type, tz) ==
    LET crumbs == Get(w, "breadcrumb")
    IN Built(
        Base(type)
        @@ CopyTruthy(w, <<"name", "description">>)
        @@ Put(Truthy(Get(w, "datePublished")), "datePublished",
               repairDate(Get(w, "datePublished"), tz))
        @@ Put(Truthy(Get(w, "dateModified")), "dateModified",
               repairDate(Get(w, "dateModified"), tz))
        @@ Put(HasLength(crumbs), "breadcrumb",
               IF HasLength(crumbs)
               THEN Obj(("@type" :> Str(<<"B", "r", "e", "a", "d", "c", "r", "u", "m", "b", "L", "i", "s", "t">>))
                        @@ ("itemListElement" :>
                              Arr([i \in 1..Len(crumbs.v) |->
                                     Obj(("@type" :> Str(<<"L", "i", "s", "t", "I", "t", "e", "m">>))
                                         @@ ("position" :> Num(FALSE, i, 0))
                                         @@ ("name" :> crumbs.v[i]))])))
               ELSE Null),
        <<>>)

\* the data object the switch of buildJsonLd reads for a type
BuildSlot(t) ==
    CASE t = T_Product -> "product" [] t = T_Recipe -> "recipe"
      [] t = T_Event -> "event" [] t = T_LocalBusiness -> "localBusiness"
      [] t = T_Article -> "article" [] t = T_BlogPosting -> "blogPosting"
      [] t = T_FAQPage -> "faq" [] t = T_HowTo -> "howto"
      [] OTHER -> "webPage"

buildJsonLd(data, url, tz) ==
    LET type == Get(data, "detectedType")
        d == Get(data, BuildSlot(type.v))
    IN IF ~Truthy(d) THEN Built(Base(type), <<>>)
       ELSE CASE type.v = T_Product -> BuildProduct(d, type, url, tz)
              [] type.v = T_Recipe -> BuildRecipe(d, type, tz)
              [] type.v = T_Event -> BuildEvent(d, type, tz)
              [] type.v = T_LocalBusiness -> BuildLocalBusiness(d, type)
              [] type.v \in {T_Article, T_BlogPosting} -> BuildArticle(d, type, url, tz)
              [] type.v = T_FAQPage -> BuildFAQ(d, type)
              [] type.v = T_HowTo -> BuildHowTo(d, type)
              [] OTHER -> BuildWebPage(d, type, tz)

-----------------------------------------------------------------------------
(* checkRequiredFields and validate *)

\* mutant: Event requires its name only
REQUIRED_FIELDS_NameOnly(t) ==
    CASE t \in {T_Product, T_Recipe, T_LocalBusiness, T_HowTo, T_WebPage, T_Event}
            -> <<"name">>
      [] t \in {T_Article, T_BlogPosting} -> <<"headline">>
      [] t = T_FAQPage -> <<"mainEntity">>
      [] OTHER -> <<>>

\* REQUIRED_FIELDS[type] || []
REQUIRED_FIELDS(t) ==
    CASE t \in {T_Product, T_Recipe, T_LocalBusiness, T_HowTo, T_WebPage} -> <<"name">>
      [] t = T_Event -> <<"name", "startDate">>
      [] t \in {T_Article, T_BlogPosting} -> <<"headline">>
      [] t = T_FAQPage -> <<"mainEntity">>
      [] OTHER -> <<>>

\* the switch of checkRequiredFields: it has no default case
SchemaDataOf(data) ==
    LET t == Get(data, "detectedType").v
    IN IF InSeq(t, DetectedTypes) THEN Get(data, BuildSlot(t)) ELSE Null

\* mutant: the loop stops after the first required field
RequiredFrom_FirstOnly(type, schemaData, required, i) ==
    IF i > Len(required) \/ i > 1 THEN Null
    ELSE LET value == Get(schemaData, required[i])
         IN IF IsNullish(value) \/ value = Str(<<>>)
            THEN Str(<<"M", "i", "s", "s", "i", "n", "g", " ", "r", "e", "q", "u", "i", "r", "e", "d", " ", "f", "i", "e", "l", "d", ":", " ">> \o type \o <<".">>
                     \o KeyChars(required[i]))
            ELSE IF value.k = "arr" /\ Len(value.v) = 0
            THEN Str(<<"E", "m", "p", "t", "y", " ", "r", "e", "q", "u", "i", "r", "e", "d", " ", "f", "i", "e", "l", "d", ":", " ">> \o type \o <<".">>
                     \o KeyChars(required[i]))
            ELSE Null

\* the verdict of the loop over the required fields, from field i on
RECURSIVE RequiredFrom(_, _, _, _)
RequiredFrom(type, schemaData, required, i) ==
    IF i > Len(required) THEN Null
    ELSE LET value == Get(schemaData, required[i])
         IN IF IsNullish(value) \/ value = Str(<<>>)
            THEN Str(<<"M", "i", "s", "s", "i", "n", "g", " ", "r", "e", "q", "u", "i", "r", "e", "d", " ", "f", "i", "e", "l", "d", ":", " ">> \o type \o <<".">>
                     \o KeyChars(required[i]))
            ELSE IF value.k = "arr" /\ Len(value.v) = 0
            THEN Str(<<"E", "m", "p", "t", "y", " ", "r", "e", "q", "u", "i", "r", "e", "d", " ", "f", "i", "e", "l", "d", ":", " ">> \o type \o <<".">>
                     \o KeyChars(required[i]))
            ELSE RequiredFrom(type, schemaData, required, i + 1)

\* checkRequiredFields(data): the reason, or Null
checkRequiredFields(data) ==
    LET type == Get(data, "detectedType").v
        schemaData == SchemaDataOf(data)
    IN IF ~Truthy(schemaData)
       THEN Str(<<"M", "i", "s", "s", "i", "n", "g", " ">> \o type \o <<" ", "d", "a", "t", "a", " ", "o", "b", "j", "e", "c", "t">>)
       ELSE RequiredFrom(type, schemaData, REQUIRED_FIELDS(type), 1)

Failure(reason) == [success |-> FALSE, stage |-> "validator", reason |-> reason]

\* validate(data, pageUrl): the value returned and the checks run, in order.
\* No statement of buildJsonLd throws on data that passed the schema, so the
\* catch clause is never entered.
validate(data, url, tz) ==
    LET Accepted(built) ==
            [result |-> [success |-> TRUE, jsonLd |-> built.jsonLd,
                         detectedType |-> Get(data, "detectedType"),
                         repairs |-> built.repairs],
             steps |-> <<"zod", "required", "build">>]
        Checked(requiredError) ==
            IF Truthy(requiredError)
            THEN [result |-> Failure(requiredError.v), steps |-> <<"zod", "required">>]
            ELSE Accepted(buildJsonLd(data, url, tz))
        Parsed(issues) ==
            IF issues # <<>>
            THEN [result |-> Failure(<<"S", "c", "h", "e", "m", "a", " ", "v", "a", "l", "i", "d", "a", "t", "i", "o", "n", " ", "f", "a", "i", "l", "e", "d", ":", " ">>
                                     \o Join(MapSeq(IssueLine, issues), <<";", " ">>)),
                  steps |-> <<"zod">>]
            ELSE Checked(checkRequiredFields(data))
    IN Parsed(ZodIssues(ExtractionSchema, data, <<>>))

-----------------------------------------------------------------------------
(* Inputs: the candidates handed to validate.  A candidate is the base      *)
(* ExtractionResult of a type (its required fields present, every other     *)
(* field null, the data objects of the other types null) changed at up to   *)
(* MaxOverrides places.                                                     *)

MaxOverrides == 1

Absent == [k |-> "absent"]

DateKeys == {"startDate", "endDate", "datePublished", "dateModified",
             "priceValidUntil"}

SampleUrl == <<"h", "t", "t", "p", "s", ":", "/", "/", "e", ".", "c", "o", "/", "a">>
PageUrls == {Undefined, Str(<<"h", "t", "t", "p", "s", ":", "/", "/", "e", ".", "c", "o", "/", "p", "/", "q">>)}
TzOffsets == {-5, 0, 9}

FieldKeys(fields) == {fields[i][1] : i \in 1..Len(fields)}
FieldSchema(fields, key) == fields[CHOOSE i \in 1..Len(fields) : fields[i][1] = key][2]

\* a well-formed, populated value of a schema
RECURSIVE Typical(_, _)
Typical(s, key) ==
    CASE s.t = "string" ->
            IF key \in DateKeys THEN Str(<<"J", "a", "n", " ", "2", "1", ",", " ", "2", "0", "2", "6">>) ELSE Str(<<"W">>)
      [] s.t = "url" -> Str(SampleUrl)
      [] s.t = "boolean" -> Bool(FALSE)
      [] s.t = "numeric" -> Str(<<"$", "1", "9", ".", "9", "9">>)
      [] s.t = "enum" -> Str(s.arg[1])
      [] s.t = "literal" -> Str(s.arg)
      [] s.t = "union" -> Typical(s.arg[1], key)
      [] s.t = "array" -> Arr(<<Typical(s.arg, key)>>)
      [] s.t = "object" ->
            Obj([f \in FieldKeys(s.arg) |-> Typical(FieldSchema(s.arg, f), f)])

\* the object of a schema with every nullable field null
AllNull(s) ==
    LET given == {f \in FieldKeys(s.arg) : FieldSchema(s.arg, f).t # "literal"}
    IN Obj([f \in given |->
              IF FieldSchema(s.arg, f).nullable THEN Null
              ELSE Typical(FieldSchema(s.arg, f), f)])

\* the values a field is given besides null and absent
RECURSIVE Samples(_, _)
Samples(s, key) ==
    CASE s.t = "string" ->
            IF key \in DateKeys
            THEN {Str(<<>>), Str(<<"2", "0", "2", "6", "-", "0", "3", "-", "0", "1">>), Str(<<"J", "a", "n", " ", "2", "1", ",", " ", "2", "0", "2", "6">>), Str(<<"n", "/", "a">>)}
            ELSE {Str(<<>>), Str(<<"W">>), Num(FALSE, 24, 0)}
      [] s.t = "url" -> {Str(SampleUrl), Str(<<"m", "a", "i", "l", "t", "o", ":", "a">>), Str(<<"/", "a">>)}
      [] s.t = "boolean" -> {Bool(TRUE), Bool(FALSE)}
      [] s.t = "numeric" ->
            {Str(<<"$", "1", "9", ".", "9", "9">>), Str(<<"n", "/", "a">>), Num(FALSE, 24, 0), Num(TRUE, 33, 0),
             Num(FALSE, 45, 1)}
      [] s.t = "enum" -> {Str(s.arg[1]), Str(<<"W">>)}
      [] s.t = "literal" -> {Str(s.arg)}
      [] s.t = "union" -> Samples(s.arg[1], key) \cup Samples(s.arg[2], key)
      [] s.t = "array" ->
            IF s.arg.t = "object"
            THEN {Arr(<<>>), Arr(<<AllNull(s.arg)>>), Arr(<<Typical(s.arg, key)>>),
                  Arr(<<Typical(s.arg, key), AllNull(s.arg)>>)}
                 \cup (IF s.arg.nullable THEN {Arr(<<Null>>)} ELSE {})
            ELSE IF key = "image"
            THEN {Arr(<<>>), Arr(<<Str(<<"/", "a", ".", "p", "n", "g">>)>>), Arr(<<Str(<<"/", "/", "e", ".", "c", "o", "/", "a">>)>>),
                  Arr(<<Str(SampleUrl)>>), Arr(<<Str(<<"a", " ", "b">>)>>)}
            ELSE {Arr(<<>>), Arr(<<Str(<<"W">>)>>)}
      [] s.t = "object" -> {AllNull(s), Typical(s, key)}

TypeSchema(t) ==
    CASE t = T_Product -> ProductSchema [] t = T_Recipe -> RecipeSchema
      [] t = T_Event -> EventSchema [] t = T_LocalBusiness -> LocalBusinessSchema
      [] t \in {T_Article, T_BlogPosting} -> ArticleSchema
      [] t = T_FAQPage -> FAQSchema [] t = T_HowTo -> HowToSchema
      [] t = T_WebPage -> WebPageSchema

SlotKeys == {"product", "recipe", "event", "localBusiness", "faq", "article",
             "blogPosting", "howto", "webPage"}

\* the data object of a type with its required fields present, the others null
BaseData(t) ==
    LET s == TypeSchema(t)
        nulls == AllNull(s).v
    IN Obj([f \in DOMAIN nulls |->
              IF InSeq(f, REQUIRED_FIELDS(t))
              THEN Typical(FieldSchema(s.arg, f), f) ELSE nulls[f]])

BaseCandidate(t) ==
    Obj(("detectedType" :> Str(t)) @@ (BuildSlot(t) :> BaseData(t))
        @@ [key \in SlotKeys |-> Null])

T_Organization == <<"O", "r", "g", "a", "n", "i", "z", "a", "t", "i", "o", "n">>

SetKey(o, key, val) ==
    IF val = Absent THEN Obj([f \in DOMAIN o.v \ {key} |-> o.v[f]])
    ELSE Obj((key :> val) @@ o.v)

\* the single changes made to a candidate of type t
Overrides(t) ==
    LET s == TypeSchema(t)
        other == IF t = T_WebPage THEN "product" ELSE "webPage"
    IN UNION {{[at |-> "data", key |-> f, val |-> v] :
                 v \in {Null, Absent} \cup Samples(FieldSchema(s.arg, f), f)} :
              f \in FieldKeys(s.arg)}
       \cup {[at |-> "data", key |-> "extra", val |-> Str(<<"W">>)]}
       \cup {[at |-> "top", key |-> BuildSlot(t), val |-> v] : v \in {Null, Absent}}
       \cup {[at |-> "top", key |-> "detectedType", val |-> v] :
                v \in {Absent, Str(T_Organization)}}
       \cup {[at |-> "top", key |-> other, val |-> v] :
                v \in {Absent, Str(<<"W">>),
                       BaseData(IF t = T_WebPage THEN T_Product ELSE T_WebPage)}}

Override(c, t, o) ==
    IF o.at = "top" THEN SetKey(c, o.key, o.val)
    ELSE IF Get(c, BuildSlot(t)).k = "obj"
    THEN SetKey(c, BuildSlot(t), SetKey(Get(c, BuildSlot(t)), o.key, o.val))
    ELSE c

RECURSIVE CandidatesOf(_, _)
CandidatesOf(t, n) ==
    IF n = 0 THEN {BaseCandidate(t)}
    ELSE CandidatesOf(t, n - 1)
         \cup {Override(c, t, o) : c \in CandidatesOf(t, n - 1), o \in Overrides(t)}

Candidates ==
    UNION {CandidatesOf(DetectedTypes[i], MaxOverrides) : i \in 1..Len(DetectedTypes)}

NoResult == [success |-> FALSE, stage |-> "none", reason |-> <<>>]

-----------------------------------------------------------------------------
(* validate as a state machine: schema validation, the required-field       *)
(* check and record building are its three steps.                           *)

\* no repairUrl, repairDate, mergeVisibleText, clean or flattenHtml call under way
IdleUrl == urlIn = Null /\ baseIn = Undefined /\ urlOut = Null /\ urlOutOld = Null
IdleDate == dateIn = Null /\ dateOut = Null
IdleMerge == facts = <<>> /\ visibleText = <<>> /\ merged = <<>>
IdleClean ==
    /\ rawHtml = <<>>
    /\ document = [head |-> <<>>, body |-> <<>>]
    /\ meta = <<>>
    /\ elementsRemoved = 0
    /\ removedBy = <<>>
    /\ cleaningResult = NoResult
    /\ cleanings = <<>>
    /\ unsupported = {}
IdleFlatten == cleanedHtml = <<>> /\ flattenResult = NoResult
IdleIngest ==
    /\ ingestUrl = <<>>
    /\ browser = "none"
    /\ completion = NoResult
    /\ ingestionResult = NoResult
    /\ scrollDepth = 0
    /\ lastScrollY = 0
IdleLog == logs = <<>> /\ debugEnabled = FALSE
IdleRest == IdleIngest /\ IdleLog /\ runs = <<>>
IdleLater == IdleUrl /\ IdleDate /\ IdleMerge /\ IdleClean /\ IdleFlatten /\ IdleRest

Idle ==
    /\ batch = <<>>
    /\ validationResult = NoResult
    /\ pipelineResult = NoResult
    /\ priceIn = Null
    /\ priceOut = Null

Init ==
    /\ pc = "zod"
    /\ cand \in Candidates
    /\ pageUrl \in PageUrls
    /\ tzOffset \in TzOffsets
    /\ result = NoResult
    /\ steps = <<>>
    /\ Idle
    /\ IdleLater

\* Step 1: ExtractionSchema.safeParse(data)
SchemaValidation ==
    /\ pc = "zod"
    /\ LET issues == ZodIssues(ExtractionSchema, cand, <<>>)
       IN IF issues # <<>>
          THEN /\ result' = Failure(<<"S", "c", "h", "e", "m", "a", " ", "v", "a", "l", "i", "d", "a", "t", "i", "o", "n", " ", "f", "a", "i", "l", "e", "d", ":", " ">>
                                    \o Join(MapSeq(IssueLine, issues), <<";", " ">>))
               /\ pc' = "done"
          ELSE /\ result' = result
               /\ pc' = "required"
    /\ steps' = Append(steps, "zod")
    /\ UNCHANGED <<cand, pageUrl, tzOffset, batch, validationResult,
                   pipelineResult, priceIn, priceOut>>
    /\ UNCHANGED laterVars

\* mutant: the return after a failed required-field check is missing
RequiredCheck_NoReturn ==
    /\ pc = "required"
    /\ LET requiredError == checkRequiredFields(cand)
       IN result' = IF Truthy(requiredError) THEN Failure(requiredError.v) ELSE result
    /\ pc' = "build"
    /\ steps' = Append(steps, "required")
    /\ UNCHANGED <<cand, pageUrl, tzOffset, batch, validationResult,
                   pipelineResult, priceIn, priceOut>>
    /\ UNCHANGED laterVars

\* Step 2: checkRequiredFields(data)
RequiredCheck ==
    /\ pc = "required"
    /\ LET requiredError == checkRequiredFields(cand)
       IN IF Truthy(requiredError)
          THEN /\ result' = Failure(requiredError.v)
               /\ pc' = "done"
          ELSE /\ result' = result
               /\ pc' = "build"
    /\ steps' = Append(steps, "required")
    /\ UNCHANGED <<cand, pageUrl, tzOffset, batch, validationResult,
                   pipelineResult, priceIn, priceOut>>
    /\ UNCHANGED laterVars

\* Steps 3 and 4: buildJsonLd(data, repairs, pageUrl), freeze, return
BuildRecord ==
    /\ pc = "build"
    /\ LET built == buildJsonLd(cand, pageUrl, tzOffset)
       IN result' = [success |-> TRUE, jsonLd |-> built.jsonLd,
                     detectedType |-> Get(cand, "detectedType"),
                     repairs |-> built.repairs]
    /\ pc' = "done"
    /\ steps' = Append(steps, "build")
    /\ UNCHANGED <<cand, pageUrl, tzOffset, batch, validationResult,
                   pipelineResult, priceIn, priceOut>>
    /\ UNCHANGED laterVars

Next == SchemaValidation \/ RequiredCheck \/ BuildRecord

Spec == Init /\ [][Next]_vars

-----------------------------------------------------------------------------
(* The validation step of runPipeline over a batch of candidates            *)

MaxBatch == 2

\* { '@type': ..., reason } of a dropped candidate
RejectedEntity(c, reason) == [type |-> Get(c, "detectedType"), reason |-> reason]

\* validateMultiEntity(data, pageUrl): every candidate is validated on its own,
\* in input order; the batch succeeds when at least one candidate is accepted
validateMultiEntity(cands, url, tz) ==
    LET isAccepted(o) == o.r.success
        isRejected(o) == ~o.r.success
        Entities(accepted) == [i \in 1..Len(accepted) |-> accepted[i].r.jsonLd]
        Outcome(accepted, rejected) ==
            IF Len(accepted) > 0
            THEN [success |-> TRUE,
                  acceptedEntities |-> Entities(accepted),
                  rejectedEntities |->
                     [i \in 1..Len(rejected) |->
                        RejectedEntity(rejected[i].c, rejected[i].r.reason)],
                  jsonLd |-> Entities(accepted),
                  entityTypes |->
                     [i \in 1..Len(accepted) |-> accepted[i].r.detectedType],
                  repairs |->
                     Flatten([i \in 1..Len(accepted) |-> accepted[i].r.repairs])]
            ELSE Failure(<<"n", "o", " ", "v", "a", "l", "i", "d", " ", "e", "n", "t", "i", "t", "i", "e", "s">>)
        Each(outcome) ==
            Outcome(SelectSeq(outcome, isAccepted), SelectSeq(outcome, isRejected))
    IN Each([i \in 1..Len(cands) |->
               [c |-> cands[i], r |-> validate(cands[i], url, tz).result]])

\* mutant: the rejection list is not passed on
PipelineOutcome_NoRejected(v) ==
    IF ~v.success
    THEN [success |-> FALSE, stage |-> "validator", reason |-> v.reason]
    ELSE [success |-> TRUE,
          acceptedEntities |-> v.acceptedEntities,
          rejectedEntities |-> <<>>,
          jsonLd |-> v.jsonLd,
          entityTypes |-> v.entityTypes,
          repairs |-> v.repairs]

\* what runPipeline returns after the validation step (logs and timing left out)
PipelineOutcome(v) ==
    IF ~v.success
    THEN [success |-> FALSE, stage |-> "validator", reason |-> v.reason]
    ELSE [success |-> TRUE,
          acceptedEntities |-> v.acceptedEntities,
          rejectedEntities |-> v.rejectedEntities,
          jsonLd |-> v.jsonLd,
          entityTypes |-> v.entityTypes,
          repairs |-> v.repairs]

WithData(t, key, val) ==
    Override(BaseCandidate(t), t, [at |-> "data", key |-> key, val |-> val])

BatchCandidates ==
    { BaseCandidate(T_Product),
      WithData(T_Product, "offers", Typical(OfferSchema, "offers")),
      WithData(T_Event, "startDate", Null),
      WithData(T_FAQPage, "mainEntity", Arr(<<>>)),
      WithData(T_Recipe, "datePublished", Str(<<"2", "0", "2", "6", "-", "0", "3", "-", "0", "1">>)),
      Override(BaseCandidate(T_Product), T_Product,
               [at |-> "top", key |-> "detectedType", val |-> Str(T_Organization)]) }

Batches == UNION {[1..n -> BatchCandidates] : n \in 0..MaxBatch}

InitBatch ==
    /\ pc = "validation"
    /\ batch \in Batches
    /\ pageUrl \in PageUrls
    /\ tzOffset \in TzOffsets
    /\ cand = Null
    /\ result = NoResult
    /\ steps = <<>>
    /\ validationResult = NoResult
    /\ pipelineResult = NoResult
    /\ priceIn = Null
    /\ priceOut = Null
    /\ IdleLater

\* Step 4 of runPipeline: validateMultiEntity(extractionResult.data, finalUrl)
RunValidation ==
    /\ pc = "validation"
    /\ validationResult' = validateMultiEntity(batch, pageUrl, tzOffset)
    /\ pc' = "outcome"
    /\ UNCHANGED <<cand, pageUrl, tzOffset, result, steps, batch, pipelineResult,
                   priceIn, priceOut>>
    /\ UNCHANGED laterVars

\* the failure or success value runPipeline returns
ReturnResult ==
    /\ pc = "outcome"
    /\ pipelineResult' = PipelineOutcome(validationResult)
    /\ pc' = "returned"
    /\ UNCHANGED <<cand, pageUrl, tzOffset, result, steps, batch, validationResult,
                   priceIn, priceOut>>
    /\ UNCHANGED laterVars

NextBatch == RunValidation \/ ReturnResult

SpecBatch == InitBatch /\ [][NextBatch]_vars

-----------------------------------------------------------------------------
(* repairPrice applied to bounded inputs *)

MaxPriceLen == 4

PriceAlphabet == {"1", "9", ",", ".", "-", " "}

PriceExamples ==
    {<<"$", "1", "9", ".", "9", "9">>, <<"1", "9", ",", "9", "9", " ", "E", "U", "R">>, <<"n", "o", " ", "d", "i", "g", "i", "t", "s">>, <<"1", ",", "2", "3", "4", ".", "5", "6">>, <<"U", "S", "D", ",", " ", "1", "9", ".", "9", "9">>}

PriceInputs ==
    {Null, Undefined, Num(FALSE, 24, 0), Num(TRUE, 33, 0), Num(FALSE, 1999, 2)}
    \cup {Str(s) : s \in PriceExamples}
    \cup {Str(s) : s \in UNION {[1..n -> PriceAlphabet] : n \in 0..MaxPriceLen}}

InitPrice ==
    /\ pc = "price"
    /\ priceIn \in PriceInputs
    /\ priceOut = Null
    /\ cand = Null
    /\ pageUrl = Undefined
    /\ tzOffset = 0
    /\ result = NoResult
    /\ steps = <<>>
    /\ batch = <<>>
    /\ validationResult = NoResult
    /\ pipelineResult = NoResult
    /\ IdleLater

ApplyRepairPrice ==
    /\ pc = "price"
    /\ priceOut' = repairPrice(priceIn)
    /\ pc' = "priced"
    /\ UNCHANGED <<cand, pageUrl, tzOffset, result, steps, batch,
                   validationResult, pipelineResult, priceIn>>
    /\ UNCHANGED laterVars

NextPrice == ApplyRepairPrice

SpecPrice == InitPrice /\ [][NextPrice]_vars

-----------------------------------------------------------------------------
(* Properties of validate                                                   *)

\* sub occurs in s
Contains(s, sub) ==
    \E i \in 0..(Len(s) - Len(sub)) : SubSeq(s, i + 1, i + Len(sub)) = sub

CandType == Get(cand, "detectedType")
KnownType == CandType.k = "str" /\ InSeq(CandType.v, DetectedTypes)
CandSlot == BuildSlot(CandType.v)
CandData == Get(cand, CandSlot)

\* the required fields the documentation lists for each type, in its order
DocumentedRequired(t) ==
    IF t = T_Event THEN <<"name", "startDate">>
    ELSE IF t \in {T_Article, T_BlogPosting} THEN <<"headline">>
    ELSE IF t = T_FAQPage THEN <<"mainEntity">>
    ELSE <<"name">>

IsMissing(v) == IsNullish(v) \/ v = Str(<<>>) \/ v = Arr(<<>>)

MissingAt(t, data) ==
    {i \in 1..Len(DocumentedRequired(t)) : IsMissing(Get(data, DocumentedRequired(t)[i]))}

TypeDotField(t, f) == t \o <<".">> \o KeyChars(f)

FailsACheck ==
    IF ZodIssues(ExtractionSchema, cand, <<>>) # <<>> THEN TRUE
    ELSE Truthy(checkRequiredFields(cand))

\* C3: the checks run in the order schema validation, required-field check,
\* record building; a candidate that fails a check is never built, and its
\* result holds a reason only (no record, no repairs).
C3_RejectFast ==
    /\ \E n \in 0..3 : steps = SubSeq(<<"zod", "required", "build">>, 1, n)
    /\ pc = "done"
       => /\ FailsACheck
             => /\ ~result.success
                /\ \A i \in 1..Len(steps) : steps[i] # "build"
          /\ ~result.success
             => /\ DOMAIN result = {"success", "stage", "reason"}
                /\ result.reason # <<>>
                /\ \A i \in 1..Len(steps) : steps[i] # "build"
          /\ result.success => steps = <<"zod", "required", "build">>

\* a candidate passed schema validation and failed the required-field check
C3_Witness ==
    /\ pc = "done"
    /\ steps = <<"zod", "required">>
    /\ ~result.success

\* C4: an accepted record holds every documented required field of its type
\* with a value that is not null, undefined, "" or an empty sequence.
C4_RequiredInRecord ==
    (pc = "done" /\ result.success)
    => \A i \in 1..Len(DocumentedRequired(CandType.v)) :
          LET f == DocumentedRequired(CandType.v)[i]
          IN /\ f \in DOMAIN result.jsonLd.v
             /\ ~IsMissing(result.jsonLd.v[f])

\* an Event was accepted
C4_Witness ==
    /\ pc = "done"
    /\ result.success
    /\ CandType = Str(T_Event)
    /\ "startDate" \in DOMAIN result.jsonLd.v

\* some key of x, at any depth, holds null or undefined
RECURSIVE HasNullishKey(_)
HasNullishKey(x) ==
    CASE x.k = "obj" ->
            \E f \in DOMAIN x.v : IsNullish(x.v[f]) \/ HasNullishKey(x.v[f])
      [] x.k = "arr" -> \E i \in 1..Len(x.v) : HasNullishKey(x.v[i])
      [] OTHER -> FALSE

\* C5 as stated: no key of an accepted record, at the top level or inside a
\* nested sub-object, holds null or undefined.
C5_NoNullishKey ==
    (pc = "done" /\ result.success) => ~HasNullishKey(result.jsonLd)

\* the other parts of the candidate are those of the base candidate
RestIsBase ==
    LET base == BaseCandidate(CandType.v).v
    IN /\ DOMAIN cand.v = DOMAIN base
       /\ \A key \in DOMAIN base \ {CandSlot} : cand.v[key] = base[key]

RequiredSet(t) == {DocumentedRequired(t)[i] : i \in 1..Len(DocumentedRequired(t))}

\* every required field holds a well-typed, non-empty value
RequiredPresent ==
    \A f \in RequiredSet(CandType.v) :
       /\ f \in DOMAIN CandData.v
       /\ ~IsMissing(CandData.v[f])
       /\ ZodIssues(FieldSchema(TypeSchema(CandType.v).arg, f), CandData.v[f], <<>>) = <<>>

OnlyRequiredKeys ==
    /\ result.success
    /\ DOMAIN result.jsonLd.v = {"@context", "@type"} \cup RequiredSet(CandType.v)

C7_UnknownTypePasses ==
    (CandType.k = "str" /\ ~InSeq(CandType.v, DetectedTypes))
    => checkRequiredFields(cand) = Null

\* the top-level fields whose string was replaced by another value
CoercedKeys(src, out) ==
    {f \in DOMAIN src.v \cap DOMAIN out.v :
        /\ src.v[f].k = "str"
        /\ out.v[f].k \in {"str", "num"}
        /\ out.v[f] # src.v[f]}

\* C8 as stated: every coerced value has its line in repairs.
C8_EveryCoercionLogged ==
    (pc = "done" /\ result.success)
    => Cardinality(CoercedKeys(CandData, result.jsonLd)) <= Len(result.repairs)

\* the Product candidate holds a single offer object
SingleOffer ==
    /\ CandType = Str(T_Product)
    /\ CandData.k = "obj"
    /\ Get(CandData, "offers").k = "obj"

\* what validate returns for the same Product with the offer in a sequence
AsSequence ==
    validate(SetKey(cand, "product",
                    SetKey(CandData, "offers", Arr(<<Get(CandData, "offers")>>))),
             pageUrl, tzOffset).result

-----------------------------------------------------------------------------
(* Properties of the batch validation step and of repairPrice              *)

Accepts(c) == validate(c, pageUrl, tzOffset).result.success
AcceptedIdx == {i \in 1..Len(batch) : Accepts(batch[i])}
RejectedIdx == {i \in 1..Len(batch) : ~Accepts(batch[i])}

\* C1: validation of a batch fails with a reason when every candidate is
\* rejected; it succeeds when at least one candidate is accepted, and then
\* every rejected candidate is reported, with its reason, in rejectedEntities
\* next to the accepted records; success is exactly acceptedEntities.length > 0.
C1_BatchOutcome ==
    pc = "returned"
    => /\ AcceptedIdx = {}
          => /\ ~pipelineResult.success
             /\ pipelineResult.stage = "validator"
             /\ pipelineResult.reason # <<>>
       /\ AcceptedIdx # {}
          => /\ pipelineResult.success
             /\ Len(pipelineResult.acceptedEntities) = Cardinality(AcceptedIdx)
             /\ Len(pipelineResult.acceptedEntities) > 0
             /\ Len(pipelineResult.rejectedEntities) = Cardinality(RejectedIdx)
             /\ \A i \in RejectedIdx :
                   \E j \in 1..Len(pipelineResult.rejectedEntities) :
                      pipelineResult.rejectedEntities[j]
                        = RejectedEntity(batch[i],
                             validate(batch[i], pageUrl, tzOffset).result.reason)

\* a batch with an accepted and a rejected candidate was returned
C1_Witness ==
    /\ pc = "returned"
    /\ pipelineResult.success
    /\ Len(pipelineResult.acceptedEntities) = 1
    /\ Len(pipelineResult.rejectedEntities) = 1

\* the number denoted by the numeric run that starts at the first digit of s
NumberOfFirstRun(s) ==
    LET ds == {i \in 1..Len(s) : s[i] \in Digits}
    IN IF ds = {} THEN Null
       ELSE LET i == CHOOSE j \in ds : \A h \in ds : j <= h
                run == MatchPrice(Drop(s, i - 1)).text
            IN parseFloat(ReplaceFirstComma(StripThousands(run, 1)))

\* C10 as stated: repairPrice returns the number denoted by the first numeric
\* run of the stringified input (thousands separators stripped, a decimal
\* comma read as the decimal point), and absent when no numeric run parses.
C10_FirstNumericRun ==
    (pc = "priced" /\ ~IsNullish(priceIn))
    => priceOut = NumberOfFirstRun(StringOf(priceIn))

-----------------------------------------------------------------------------
(* repairUrl applied to bounded inputs, by the validator of part_000 and by *)
(* the validator of src/lib/pipeline/validator.ts                           *)

\* repairUrl of src/lib/pipeline/validator.ts: no branch for "//"
repairUrl_validator(url, baseUrl) ==
    LET Validated(raw) == IF ParseUrl(raw).ok THEN Str(raw) ELSE Null
        Resolved(absolute) == IF absolute.ok THEN Str(absolute.href) ELSE Null
    IN IF ~Truthy(url) THEN Null
       ELSE IF StartsWith(url.v, HttpScheme \o <<":", "/", "/">>)
               \/ StartsWith(url.v, HttpsScheme \o <<":", "/", "/">>)
       THEN Validated(url.v)
       ELSE IF Truthy(baseUrl)
       THEN Resolved(ResolveUrl(url.v, baseUrl.v))
       ELSE Null

MaxUrlLen == 3

UrlAlphabet == {"/", "a", "b"}

UrlTails == UNION {[1..n -> UrlAlphabet] : n \in 0..MaxUrlLen}

UrlExamples ==
    {<<"/", "/", "c", "d", "n", ".", "e", "x", "a", "m", "p", "l", "e", ".", "c", "o", "m", "/", "x", ".", "p", "n", "g">>, <<"/", "a", "/", "b">>, <<"n", "o", "t", " ", "a", " ", "u", "r", "l">>, <<"h", "t", "t", "p", "s", ":", "/", "/", "e", ".", "c", "o", "/", "a">>,
     <<"h", "t", "t", "p", ":", "/", "/", "e", ".", "c", "o">>, <<"h", "t", "t", "p", "s", ":", "/", "/">>, <<"h", "t", "t", "p", ":", "/", "/", "a", " ", "b", "/">>, <<"/", "/", " ", "/", "x">>, <<"x", ".", "p", "n", "g">>,
     <<"f", "t", "p", ":", "/", "/", "e", ".", "c", "o", "/", "a">>, <<"m", "a", "i", "l", "t", "o", ":", "a">>}

UrlInputs ==
    {Null, Str(<<>>)}
    \cup {Str(s) : s \in UrlExamples}
    \cup {Str(s) : s \in UrlTails}
    \cup {Str(<<"/", "/", "e", ".", "c", "o">> \o s) : s \in UrlTails}

BaseInputs ==
    {Undefined, Str(<<>>), Str(<<"h", "t", "t", "p", "s", ":", "/", "/", "e", "x", "a", "m", "p", "l", "e", ".", "c", "o", "m", "/", "p">>), Str(<<"h", "t", "t", "p", ":", "/", "/", "e", ".", "c", "o", "/", "p", "/", "q">>),
     Str(<<"n", "o", "t", " ", "a", " ", "u", "r", "l">>)}

InitUrl ==
    /\ pc = "url"
    /\ urlIn \in UrlInputs
    /\ baseIn \in BaseInputs
    /\ urlOut = Null
    /\ urlOutOld = Null
    /\ cand = Null
    /\ pageUrl = Undefined
    /\ tzOffset = 0
    /\ result = NoResult
    /\ steps = <<>>
    /\ Idle
    /\ IdleDate /\ IdleMerge /\ IdleClean /\ IdleFlatten /\ IdleRest

notUrl == <<cand, pageUrl, tzOffset, result, steps, batch, validationResult,
            pipelineResult, priceIn, priceOut, dateVars, mergeVars, cleanVars,
            flattenVars, restVars>>

ApplyRepairUrl ==
    /\ pc = "url"
    /\ urlOut' = repairUrl(urlIn, baseIn)
    /\ pc' = "url-validator"
    /\ UNCHANGED <<urlIn, baseIn, urlOutOld, notUrl>>

ApplyRepairUrlValidator ==
    /\ pc = "url-validator"
    /\ urlOutOld' = repairUrl_validator(urlIn, baseIn)
    /\ pc' = "urled"
    /\ UNCHANGED <<urlIn, baseIn, urlOut, notUrl>>

NextUrl == ApplyRepairUrl \/ ApplyRepairUrlValidator

SpecUrl == InitUrl /\ [][NextUrl]_vars

-----------------------------------------------------------------------------
(* Properties of repairUrl                                                  *)

HostChars == Letters \cup Digits \cup {".", "-"}

\* //host or //host/path, the host made of letters, digits, "." and "-"
IsProtocolRelative(u) ==
    /\ StartsWith(u, <<"/", "/">>)
    /\ RunLen(u, 3, HostChars) > 0
    /\ LET n == 2 + RunLen(u, 3, HostChars) IN n = Len(u) \/ u[n + 1] = "/"

\* C11 as stated: repairUrl rewrites every protocol-relative URL //host/path
\* to https://host/path, with or without a base URL and whatever the scheme
\* of the base URL -- in each validator file that defines repairUrl.
C11_ProtocolRelativeToHttps ==
    (pc = "urled" /\ urlIn.k = "str" /\ IsProtocolRelative(urlIn.v))
    => /\ urlOut = Str(<<"h", "t", "t", "p", "s", ":">> \o urlIn.v)
       /\ urlOutOld = Str(<<"h", "t", "t", "p", "s", ":">> \o urlIn.v)

\* the same for the repairUrl of part_000 alone
ProtocolRelativeToHttps_part000 ==
    (pc = "urled" /\ urlIn.k = "str" /\ IsProtocolRelative(urlIn.v))
    => urlOut = Str(<<"h", "t", "t", "p", "s", ":">> \o urlIn.v)

\* a string with a scheme that new URL accepts
IsAbsoluteUrl(u) == SchemeOf(u) # <<>> /\ ParseUrl(u).ok

HasBase == Truthy(baseIn) /\ ParseUrl(baseIn.v).ok

\* the origin of an http(s) base, then the path the reference names
ExpectedResolved(u, b) ==
    b.scheme \o <<":", "/", "/">> \o b.host
      \o (IF StartsWith(u, <<"/">>) THEN u ELSE DirOf(b.path) \o u)

\* C12 as stated: repairUrl returns an absolute URL or absent; an
\* already-absolute URL that parses as a valid URL is returned unchanged; a
\* relative URL is resolved against baseUrl when one is supplied; a relative
\* URL with no baseUrl and an unparseable URL yield absent.
C12_AbsoluteOrAbsent ==
    (pc = "urled" /\ urlIn.k = "str" /\ urlIn.v # <<>>)
    => /\ urlOut = Null \/ (urlOut.k = "str" /\ IsAbsoluteUrl(urlOut.v))
       /\ IsAbsoluteUrl(urlIn.v) => urlOut = urlIn
       /\ (SchemeOf(urlIn.v) = <<>> /\ ~StartsWith(urlIn.v, <<"/", "/">>) /\ HasBase
             /\ urlIn.v[1] # " ")
          => urlOut = Str(ExpectedResolved(urlIn.v, ParseUrl(baseIn.v)))
       /\ (SchemeOf(urlIn.v) = <<>> /\ ~StartsWith(urlIn.v, <<"/", "/">>) /\ ~Truthy(baseIn))
          => urlOut = Null
       /\ (SchemeOf(urlIn.v) # <<>> /\ ~ParseUrl(urlIn.v).ok) => urlOut = Null

\* C12 without its clause on already-absolute URLs
AbsoluteOrAbsent_NotUnchanged ==
    (pc = "urled" /\ urlIn.k = "str" /\ urlIn.v # <<>>)
    => /\ urlOut = Null \/ (urlOut.k = "str" /\ IsAbsoluteUrl(urlOut.v))
       /\ (IsAbsoluteUrl(urlIn.v) /\ SchemeOf(urlIn.v) \in {HttpScheme, HttpsScheme})
          => urlOut = urlIn
       /\ (SchemeOf(urlIn.v) = <<>> /\ ~StartsWith(urlIn.v, <<"/", "/">>) /\ HasBase
             /\ urlIn.v[1] # " ")
          => urlOut = Str(ExpectedResolved(urlIn.v, ParseUrl(baseIn.v)))
       /\ (SchemeOf(urlIn.v) = <<>> /\ ~StartsWith(urlIn.v, <<"/", "/">>) /\ ~Truthy(baseIn))
          => urlOut = Null
       /\ (SchemeOf(urlIn.v) # <<>> /\ ~ParseUrl(urlIn.v).ok) => urlOut = Null

-----------------------------------------------------------------------------
(* repairDate applied to bounded inputs on hosts of each time-zone offset   *)

MonthNames ==
    << <<"J", "a", "n", "u", "a", "r", "y">>, <<"F", "e", "b", "r", "u", "a", "r", "y">>, <<"M", "a", "r", "c", "h">>, <<"A", "p", "r", "i", "l">>, <<"M", "a", "y">>, <<"J", "u", "n", "e">>, <<"J", "u", "l", "y">>,
       <<"A", "u", "g", "u", "s", "t">>, <<"S", "e", "p", "t", "e", "m", "b", "e", "r">>, <<"O", "c", "t", "o", "b", "e", "r">>, <<"N", "o", "v", "e", "m", "b", "e", "r">>, <<"D", "e", "c", "e", "m", "b", "e", "r">> >>

DateYears == {2024, 2026}

MaxDateDay == 2

\* "January 21, 2026"
HumanDate(y, m, d) == MonthNames[m] \o <<" ">> \o NatChars(d) \o <<",", " ">> \o NatChars(y)

DateDays == 1..MaxDateDay \cup {21}

DateInputs ==
    {Null, Str(<<>>), Str(<<"n", "o", "t", " ", "a", " ", "d", "a", "t", "e">>), Str(<<"2", "0", "2", "6", "-", "0", "1", "-", "2", "1">>), Str(<<"2", "0", "2", "6", "-", "1", "3", "-", "0", "1">>),
     Str(<<"t", "o", "m", "o", "r", "r", "o", "w">>)}
    \cup {Str(HumanDate(y, m, d)) : y \in DateYears, m \in 1..12, d \in DateDays}

InitDate ==
    /\ pc = "date"
    /\ dateIn \in DateInputs
    /\ dateOut = Null
    /\ tzOffset \in TzOffsets
    /\ cand = Null
    /\ pageUrl = Undefined
    /\ result = NoResult
    /\ steps = <<>>
    /\ Idle
    /\ IdleUrl /\ IdleMerge /\ IdleClean /\ IdleFlatten /\ IdleRest

ApplyRepairDate ==
    /\ pc = "date"
    /\ dateOut' = repairDate(dateIn, tzOffset)
    /\ pc' = "dated"
    /\ UNCHANGED <<dateIn, cand, pageUrl, tzOffset, result, steps, batch,
                   validationResult, pipelineResult, priceIn, priceOut,
                   urlVars, mergeVars, cleanVars, flattenVars, restVars>>

NextDate == ApplyRepairDate

SpecDate == InitDate /\ [][NextDate]_vars

-----------------------------------------------------------------------------
(* Properties of repairDate                                                 *)

\* YYYY-MM-DD
CalendarDate(y, m, d) ==
    PadChars(y, 4) \o <<"-">> \o PadChars(m, 2) \o <<"-">> \o PadChars(d, 2)

\* C13 as stated: repairDate of a human-readable date returns the calendar
\* date the input names, in YYYY-MM-DD form, for every time-zone offset of
\* the host.
C13_NamedCalendarDate ==
    pc = "dated"
    => \A y \in DateYears, m \in 1..12, d \in DateDays :
          dateIn = Str(HumanDate(y, m, d)) => dateOut = Str(CalendarDate(y, m, d))

\* the same on the hosts at or west of UTC
NamedCalendarDate_NotEastOfUtc ==
    (pc = "dated" /\ tzOffset <= 0)
    => \A y \in DateYears, m \in 1..12, d \in DateDays :
          dateIn = Str(HumanDate(y, m, d)) => dateOut = Str(CalendarDate(y, m, d))

\* C14 as stated: when calendar parsing fails repairDate returns the
\* original string unchanged, and for a string input it never returns absent.
C14_UnparsedUnchanged ==
    (pc = "dated" /\ dateIn.k = "str")
    => /\ dateOut # Null
       /\ ~ParseDate(dateIn.v).ok => dateOut = dateIn

\* the same for the non-empty strings
UnparsedUnchanged_NonEmpty ==
    (pc = "dated" /\ dateIn.k = "str" /\ dateIn.v # <<>>)
    => /\ dateOut # Null
       /\ ~ParseDate(dateIn.v).ok => dateOut = dateIn

-----------------------------------------------------------------------------
(* mergeVisibleText (src/lib/pipeline/merge.ts) applied to bounded inputs   *)

\* the facts with every repeated fact dropped
RECURSIVE Distinct(_)
Distinct(s) ==
    IF s = <<>> THEN <<>>
    ELSE LET init == Distinct(SubSeq(s, 1, Len(s) - 1))
         IN IF InSeq(s[Len(s)], init) THEN init ELSE Append(init, s[Len(s)])

mergeVisibleText_Dedup(f, text) ==
    IF ~Truthy(f) \/ Len(f.v) = 0 THEN text
    ELSE Join(Distinct(f.v), <<"\n">>) \o <<"\n", "\n">> \o text

mergeVisibleText(f, text) ==
    IF ~Truthy(f) \/ Len(f.v) = 0 THEN text
    ELSE Join(f.v, <<"\n">>) \o <<"\n", "\n">> \o text

MaxFacts == 2

MaxTextLen == 2

TextAlphabet == {"a", " ", "\n"}

FactStrings == {<<>>, <<"a">>, <<" ">>, <<"\n">>, <<"b", " ", "b">>}

FactLists == UNION {[1..n -> FactStrings] : n \in 0..MaxFacts}

VisibleTexts == UNION {[1..n -> TextAlphabet] : n \in 0..MaxTextLen}

InitMerge ==
    /\ pc = "merge"
    /\ facts \in {Null, Undefined} \cup {Arr(f) : f \in FactLists}
    /\ visibleText \in VisibleTexts
    /\ merged = <<>>
    /\ cand = Null
    /\ pageUrl = Undefined
    /\ tzOffset = 0
    /\ result = NoResult
    /\ steps = <<>>
    /\ Idle
    /\ IdleUrl /\ IdleDate /\ IdleClean /\ IdleFlatten /\ IdleRest

ApplyMerge ==
    /\ pc = "merge"
    /\ merged' = mergeVisibleText(facts, visibleText)
    /\ pc' = "merged"
    /\ UNCHANGED <<facts, visibleText, cand, pageUrl, tzOffset, result, steps,
                   batch, validationResult, pipelineResult, priceIn, priceOut,
                   urlVars, dateVars, cleanVars, flattenVars, restVars>>

NextMerge == ApplyMerge

SpecMerge == InitMerge /\ [][NextMerge]_vars

-----------------------------------------------------------------------------
(* Properties of mergeVisibleText                                           *)

\* each fact followed by a newline, the last one by a blank line, then text
RECURSIVE FactsThenText(_, _)
FactsThenText(fs, text) ==
    IF Len(fs) = 1 THEN fs[1] \o <<"\n", "\n">> \o text
    ELSE fs[1] \o <<"\n">> \o FactsThenText(Tail(fs), text)

\* C15: merge returns visibleText unchanged when facts is empty, and
\* otherwise the facts joined by single newlines, a blank line, then
\* visibleText verbatim, with the facts in their order and duplicates kept.
C15_MergeFormat ==
    (pc = "merged" /\ facts.k = "arr")
    => IF facts.v = <<>> THEN merged = visibleText
       ELSE merged = FactsThenText(facts.v, visibleText)

\* a merge of two equal facts with a non-empty text
C15_Witness ==
    /\ pc = "merged"
    /\ facts.k = "arr"
    /\ Len(facts.v) = 2
    /\ facts.v[1] = facts.v[2]
    /\ facts.v[1] # <<>>
    /\ visibleText # <<>>
    /\ Len(merged) = 2 * Len(facts.v[1]) + 3 + Len(visibleText)

-----------------------------------------------------------------------------
(* The DOM of clean and flattenHtml.  Markup is a sequence of tokens (start *)
(* tag with attributes, end tag, text) and new JSDOM(markup) builds the     *)
(* tree from it: a void element takes no children, an end tag closes the    *)
(* nearest open element of its name and every element opened inside it, an  *)
(* unmatched end tag is ignored, elements left open are closed at the end,  *)
(* adjacent text is one text node, a tr directly in a table gets its tbody, *)
(* and leading meta, title, script, style and link elements go to the head. *)
(* A node is [nodeType |-> 1, tag, attrs, kids] or [nodeType |-> 3, data];  *)
(* attrs maps attribute names to values (sequences of characters).          *)

Element(tag, attrs, kids) == [nodeType |-> 1, tag |-> tag, attrs |-> attrs, kids |-> kids]
Text(data) == [nodeType |-> 3, data |-> data]

StartTag(tag, attrs) == [t |-> "open", tag |-> tag, attrs |-> attrs]
EndTag(tag) == [t |-> "close", tag |-> tag]
Characters(data) == [t |-> "text", data |-> data]

VoidTags == {"img", "meta", "input", "br", "hr", "link"}
HeadTags == {"meta", "title", "script", "style", "link"}

\* insert a node as the last child; character data joins a preceding text node
AppendNode(kids, n) ==
    IF n.nodeType = 3 /\ kids # <<>> /\ kids[Len(kids)].nodeType = 3
    THEN [kids EXCEPT ![Len(kids)].data = @ \o n.data]
    ELSE Append(kids, n)

\* pop the open elements above position n, each into its parent
RECURSIVE CloseTo(_, _)
CloseTo(stack, n) ==
    IF Len(stack) <= n THEN stack
    ELSE CloseTo([SubSeq(stack, 1, Len(stack) - 1) EXCEPT
                    ![Len(stack) - 1].kids = Append(@, stack[Len(stack)])], n)

\* the stack of open elements after one token
TreeStep(stack, tok) ==
    LET top == Len(stack)
        Closed(opens) ==
            IF opens = {} THEN stack
            ELSE CloseTo(stack, (CHOOSE k \in opens : \A h \in opens : h <= k) - 1)
        Opened(st) == Append(st, Element(tok.tag, tok.attrs, <<>>))
    IN CASE tok.t = "text" ->
              [stack EXCEPT ![top].kids = AppendNode(@, Text(tok.data))]
         [] tok.t = "open" /\ tok.tag \in VoidTags ->
              [stack EXCEPT ![top].kids = Append(@, Element(tok.tag, tok.attrs, <<>>))]
         [] tok.t = "open" /\ tok.tag = "tr" /\ stack[top].tag = "table" ->
              Opened(Append(stack, Element("tbody", <<>>, <<>>)))
         [] tok.t = "open" -> Opened(stack)
         [] OTHER -> Closed({k \in 2..top : stack[k].tag = tok.tag})

RECURSIVE TreeBuilder(_, _, _)
TreeBuilder(tokens, i, stack) ==
    IF i > Len(tokens) THEN CloseTo(stack, 1)[1].kids
    ELSE TreeBuilder(tokens, i + 1, TreeStep(stack, tokens[i]))

\* new JSDOM(markup).window.document
JSDOM(markup) ==
    LET InHead(n) == n.nodeType = 1 /\ n.tag \in HeadTags
        Split(nodes, h) == [head |-> SubSeq(nodes, 1, h), body |-> Drop(nodes, h)]
        Leading(nodes) ==
            Split(nodes, Cardinality({k \in 1..Len(nodes) :
                                         \A j \in 1..k : InHead(nodes[j])}))
    IN Leading(TreeBuilder(markup, 1, <<Element("#document", <<>>, <<>>)>>))

\* element.innerHTML, as tokens
RECURSIVE innerHTML(_)
innerHTML(nodes) ==
    LET Node(n) ==
            IF n.nodeType = 3 THEN <<Characters(n.data)>>
            ELSE IF n.tag \in VoidTags THEN <<StartTag(n.tag, n.attrs)>>
            ELSE <<StartTag(n.tag, n.attrs)>> \o innerHTML(n.kids) \o <<EndTag(n.tag)>>
    IN IF nodes = <<>> THEN <<>> ELSE Node(nodes[1]) \o innerHTML(Tail(nodes))

\* the number of characters of name="value" for each attribute, with its space
RECURSIVE AttrsLength(_, _)
AttrsLength(attrs, names) ==
    IF names = {} THEN 0
    ELSE LET a == CHOOSE x \in names : TRUE
         IN Len(a) + Len(attrs[a]) + 4 + AttrsLength(attrs, names \ {a})

\* markup.length
RECURSIVE MarkupLength(_)
MarkupLength(tokens) ==
    LET Of(tok) ==
            CASE tok.t = "text" -> Len(tok.data)
              [] tok.t = "open" -> Len(tok.tag) + 2 + AttrsLength(tok.attrs, DOMAIN tok.attrs)
              [] OTHER -> Len(tok.tag) + 3
    IN IF tokens = <<>> THEN 0 ELSE Of(tokens[1]) + MarkupLength(Tail(tokens))

\* String.prototype.trim
IsSpace(c) == c \in {" ", "\n", "\t"}
RECURSIVE Trim(_)
Trim(s) ==
    IF s # <<>> /\ IsSpace(s[1]) THEN Trim(Tail(s))
    ELSE IF s # <<>> /\ IsSpace(s[Len(s)]) THEN Trim(SubSeq(s, 1, Len(s) - 1))
    ELSE s

\* node.textContent
RECURSIVE textContent(_)
textContent(n) ==
    LET Of(kids) == IF kids = <<>> THEN <<>>
                    ELSE textContent(kids[1]) \o textContent([n EXCEPT !.kids = Tail(kids)])
    IN IF n.nodeType = 3 THEN n.data ELSE Of(n.kids)

\* el.getAttribute(name): null when the element has no such attribute
getAttribute(el, name) ==
    IF name \in DOMAIN el.attrs THEN Str(el.attrs[name]) ELSE Null

(* Selectors.  A compound selector is a sequence of conditions that must    *)
(* all hold; a selector list is a sequence of compound selectors.           *)
Tag(name) == [kind |-> "tag", name |-> name, val |-> <<>>]
Class(word) == [kind |-> "class", name |-> "class", val |-> word]
Id(val) == [kind |-> "eq", name |-> "id", val |-> val]
HasAttr(name) == [kind |-> "has", name |-> name, val |-> <<>>]
AttrEq(name, val) == [kind |-> "eq", name |-> name, val |-> val]
AttrSub(name, val) == [kind |-> "sub", name |-> name, val |-> val]
NotAttrEq(name, val) == [kind |-> "noteq", name |-> name, val |-> val]

\* w is one of the space-separated words of s
HasWord(s, w) ==
    \E i \in 1..Len(s) :
        /\ i + Len(w) - 1 <= Len(s)
        /\ SubSeq(s, i, i + Len(w) - 1) = w
        /\ i = 1 \/ IsSpace(s[i - 1])
        /\ i + Len(w) - 1 = Len(s) \/ IsSpace(s[i + Len(w)])

Matches(el, selector) ==
    \A k \in 1..Len(selector) :
        LET c == selector[k]
            Value(has) == IF has THEN el.attrs[c.name] ELSE <<>>
            On(has, v) ==
                CASE c.kind = "tag" -> el.tag = c.name
                  [] c.kind = "class" -> has /\ HasWord(v, c.val)
                  [] c.kind = "has" -> has
                  [] c.kind = "eq" -> has /\ v = c.val
                  [] c.kind = "sub" -> has /\ Contains(v, c.val)
                  [] OTHER -> ~(has /\ v = c.val)
        IN On(c.name \in DOMAIN el.attrs, Value(c.name \in DOMAIN el.attrs))

MatchesAny(el, selectors) == \E k \in 1..Len(selectors) : Matches(el, selectors[k])

\* the elements among nodes and their descendants that match, in document order
RECURSIVE querySelectorAll(_, _)
querySelectorAll(nodes, selectors) ==
    LET Under(n) ==
            IF n.nodeType # 1 THEN <<>>
            ELSE (IF MatchesAny(n, selectors) THEN <<n>> ELSE <<>>)
                    \o querySelectorAll(n.kids, selectors)
    IN IF nodes = <<>> THEN <<>>
       ELSE Under(nodes[1]) \o querySelectorAll(Tail(nodes), selectors)

\* the nodes after el.remove() on every element that matches
RECURSIVE RemoveAll(_, _)
RemoveAll(nodes, selectors) ==
    LET Kept(n) ==
            IF n.nodeType # 1 THEN <<n>>
            ELSE IF MatchesAny(n, selectors) THEN <<>>
            ELSE <<[n EXCEPT !.kids = RemoveAll(n.kids, selectors)]>>
    IN IF nodes = <<>> THEN <<>>
       ELSE Kept(nodes[1]) \o RemoveAll(Tail(nodes), selectors)

-----------------------------------------------------------------------------
(* clean (src/lib/pipeline/cleaning.ts)                                     *)

REMOVE_ELEMENTS_NoNoscript ==
    << <<Tag("script"), NotAttrEq("type", <<"a", "p", "p", "l", "i", "c", "a", "t", "i", "o", "n", "/", "l", "d", "+", "j", "s", "o", "n">>)>>,
       <<Tag("style")>>, <<Tag("iframe")>>, <<Tag("svg")>>,
       <<Tag("canvas")>>, <<Tag("video")>>, <<Tag("audio")>>, <<Tag("object")>>,
       <<Tag("embed")>>, <<Tag("applet")>> >>

REMOVE_ELEMENTS ==
    << <<Tag("script"), NotAttrEq("type", <<"a", "p", "p", "l", "i", "c", "a", "t", "i", "o", "n", "/", "l", "d", "+", "j", "s", "o", "n">>)>>,
       <<Tag("style")>>, <<Tag("noscript")>>, <<Tag("iframe")>>, <<Tag("svg")>>,
       <<Tag("canvas")>>, <<Tag("video")>>, <<Tag("audio")>>, <<Tag("object")>>,
       <<Tag("embed")>>, <<Tag("applet")>> >>

BOILERPLATE_SELECTORS ==
    << <<Tag("nav")>>, <<Tag("header")>>, <<Tag("footer")>>, <<Tag("aside")>>,
       <<AttrEq("role", <<"n", "a", "v", "i", "g", "a", "t", "i", "o", "n">>)>>, <<AttrEq("role", <<"b", "a", "n", "n", "e", "r">>)>>,
       <<AttrEq("role", <<"c", "o", "n", "t", "e", "n", "t", "i", "n", "f", "o">>)>>,
       <<Class(<<"n", "a", "v">>)>>, <<Class(<<"n", "a", "v", "i", "g", "a", "t", "i", "o", "n">>)>>, <<Class(<<"n", "a", "v", "b", "a", "r">>)>>,
       <<Class(<<"h", "e", "a", "d", "e", "r">>)>>, <<Class(<<"f", "o", "o", "t", "e", "r">>)>>, <<Class(<<"s", "i", "d", "e", "b", "a", "r">>)>>,
       <<Class(<<"c", "o", "o", "k", "i", "e", "-", "b", "a", "n", "n", "e", "r">>)>>, <<Class(<<"c", "o", "o", "k", "i", "e", "-", "n", "o", "t", "i", "c", "e">>)>>,
       <<Class(<<"c", "o", "o", "k", "i", "e", "-", "c", "o", "n", "s", "e", "n", "t">>)>>, <<Class(<<"g", "d", "p", "r">>)>>,
       <<Class(<<"p", "o", "p", "u", "p">>)>>, <<Class(<<"m", "o", "d", "a", "l">>)>>, <<Class(<<"o", "v", "e", "r", "l", "a", "y">>)>>,
       <<Class(<<"l", "i", "g", "h", "t", "b", "o", "x">>)>>,
       <<Class(<<"a", "d", "v", "e", "r", "t", "i", "s", "e", "m", "e", "n", "t">>)>>, <<Class(<<"a", "d">>)>>, <<Class(<<"a", "d", "s">>)>>,
       <<Class(<<"a", "d", "v", "e", "r", "t">>)>>, <<AttrSub("class", <<"a", "d", "-">>)>>,
       <<Class(<<"s", "o", "c", "i", "a", "l", "-", "s", "h", "a", "r", "e">>)>>, <<Class(<<"s", "h", "a", "r", "e", "-", "b", "u", "t", "t", "o", "n", "s">>)>>,
       <<Class(<<"s", "o", "c", "i", "a", "l", "-", "i", "c", "o", "n", "s">>)>>,
       <<Class(<<"n", "e", "w", "s", "l", "e", "t", "t", "e", "r">>)>>, <<Class(<<"s", "u", "b", "s", "c", "r", "i", "b", "e">>)>>, <<Class(<<"s", "i", "g", "n", "u", "p">>)>>,
       <<Class(<<"b", "r", "e", "a", "d", "c", "r", "u", "m", "b">>)>>, <<Class(<<"b", "r", "e", "a", "d", "c", "r", "u", "m", "b", "s">>)>>,
       <<Id(<<"c", "o", "m", "m", "e", "n", "t", "s">>)>>, <<Class(<<"c", "o", "m", "m", "e", "n", "t", "s">>)>>, <<Class(<<"c", "o", "m", "m", "e", "n", "t", "-", "s", "e", "c", "t", "i", "o", "n">>)>> >>

HIDDEN_SELECTORS_NoStyle ==
    << <<AttrEq("aria-hidden", <<"t", "r", "u", "e">>)>>, <<HasAttr("hidden")>>,
       <<Class(<<"h", "i", "d", "d", "e", "n">>)>>, <<Class(<<"h", "i", "d", "e">>)>>, <<Class(<<"i", "n", "v", "i", "s", "i", "b", "l", "e">>)>>,
       <<Class(<<"s", "r", "-", "o", "n", "l", "y">>)>>, <<Class(<<"v", "i", "s", "u", "a", "l", "l", "y", "-", "h", "i", "d", "d", "e", "n">>)>>,
       <<Class(<<"s", "c", "r", "e", "e", "n", "-", "r", "e", "a", "d", "e", "r", "-", "t", "e", "x", "t">>)>> >>

HIDDEN_SELECTORS ==
    << <<AttrEq("aria-hidden", <<"t", "r", "u", "e">>)>>, <<HasAttr("hidden")>>,
       <<Class(<<"h", "i", "d", "d", "e", "n">>)>>, <<Class(<<"h", "i", "d", "e">>)>>, <<Class(<<"i", "n", "v", "i", "s", "i", "b", "l", "e">>)>>,
       <<Class(<<"s", "r", "-", "o", "n", "l", "y">>)>>, <<Class(<<"v", "i", "s", "u", "a", "l", "l", "y", "-", "h", "i", "d", "d", "e", "n">>)>>,
       <<Class(<<"s", "c", "r", "e", "e", "n", "-", "r", "e", "a", "d", "e", "r", "-", "t", "e", "x", "t">>)>>,
       <<AttrSub("style", <<"d", "i", "s", "p", "l", "a", "y", ":", " ", "n", "o", "n", "e">>)>>, <<AttrSub("style", <<"d", "i", "s", "p", "l", "a", "y", ":", "n", "o", "n", "e">>)>>,
       <<AttrSub("style", <<"v", "i", "s", "i", "b", "i", "l", "i", "t", "y", ":", " ", "h", "i", "d", "d", "e", "n">>)>>,
       <<AttrSub("style", <<"v", "i", "s", "i", "b", "i", "l", "i", "t", "y", ":", "h", "i", "d", "d", "e", "n">>)>> >>

\* try { document.querySelectorAll(selector) ... } catch { /* skip */ }: the
\* patterns of a list that are evaluated when those in failed throw; but
\* first the variant in which the first failure ends the loop
Evaluated_UntilFailure(selectors, failed) ==
    LET Before == {i \in 0..Len(selectors) : \A k \in 1..i : selectors[k] \notin failed}
    IN SubSeq(selectors, 1, CHOOSE i \in Before : \A j \in Before : j <= i)

Evaluated(selectors, failed) ==
    SelectSeq(selectors, LAMBDA selector : selector \notin failed)

\* document.querySelectorAll(selectors)
DocumentAll(doc, selectors) == querySelectorAll(doc.head \o doc.body, selectors)

\* elements.forEach(el => el.remove()) on the matches of one selector list
DocumentRemove(doc, selectors) ==
    [head |-> RemoveAll(doc.head, selectors), body |-> RemoveAll(doc.body, selectors)]

\* selectors.forEach(selector => { remove its matches; count += elements.length })
RemovePass(doc, selectors) ==
    LET \* the document once the matches of the first i selectors are removed
        After(i) == DocumentRemove(doc, SubSeq(selectors, 1, i))
        \* elements.length for selector i
        Found(i) == Len(DocumentAll(After(i - 1), <<selectors[i]>>))
        RECURSIVE Counted(_)
        Counted(i) == IF i = 0 THEN 0 ELSE Found(i) + Counted(i - 1)
    IN [document |-> After(Len(selectors)), count |-> Counted(Len(selectors))]

\* el.textContent?.trim() of each element, the empty ones dropped
TrimmedTexts(els) ==
    SelectSeq([k \in 1..Len(els) |-> Trim(textContent(els[k]))], LAMBDA t : t # <<>>)

\* 0.1 meta tags
ExtractMetaTags(doc) ==
    LET Entry(el) == [name |-> getAttribute(el, "name"),
                      property |-> getAttribute(el, "property"),
                      content |-> getAttribute(el, "content")]
        Of(els) == SelectSeq([k \in 1..Len(els) |-> Entry(els[k])],
                             LAMBDA e : Truthy(e.content))
    IN Of(DocumentAll(doc, << <<Tag("meta"), HasAttr("name")>>,
                              <<Tag("meta"), HasAttr("property")>> >>))

HeadingTags == <<"h1", "h2", "h3", "h4", "h5", "h6">>

\* all six heading tags queried at once, in document order
ExtractHeadings_DocumentOrder(doc, i) ==
    LET LevelOf(el) == CHOOSE l \in 1..Len(HeadingTags) : HeadingTags[l] = el.tag
        Entry(el) == [level |-> LevelOf(el), text |-> Trim(textContent(el))]
        Of(els) == SelectSeq([k \in 1..Len(els) |-> Entry(els[k])],
                             LAMBDA e : e.text # <<>>)
    IN Of(DocumentAll(doc, [l \in 1..Len(HeadingTags) |-> <<Tag(HeadingTags[l])>>]))

\* 4. headings, level by level
RECURSIVE ExtractHeadings(_, _)
ExtractHeadings(doc, i) ==
    LET Of(texts) == [k \in 1..Len(texts) |-> [level |-> i, text |-> texts[k]]]
    IN IF i > Len(HeadingTags) THEN <<>>
       ELSE Of(TrimmedTexts(DocumentAll(doc, << <<Tag(HeadingTags[i])>> >>)))
              \o ExtractHeadings(doc, i + 1)

\* 5. lists
ExtractLists(doc) ==
    LET Entry(list) ==
            [type |-> IF list.tag = "ol" THEN "ordered" ELSE "unordered",
             items |-> TrimmedTexts(querySelectorAll(list.kids, << <<Tag("li")>> >>))]
        Of(els) == SelectSeq([k \in 1..Len(els) |-> Entry(els[k])],
                             LAMBDA l : Len(l.items) > 0)
    IN Of(DocumentAll(doc, << <<Tag("ul")>>, <<Tag("ol")>> >>))

\* 6. tables
ExtractTables(doc) ==
    LET Cells(tds) == [k \in 1..Len(tds) |-> Trim(textContent(tds[k]))]
        Rows(trs) ==
            SelectSeq([k \in 1..Len(trs) |->
                          Cells(querySelectorAll(trs[k].kids, << <<Tag("td")>> >>))],
                      LAMBDA cells : Len(cells) > 0
                                       /\ \E k \in 1..Len(cells) : cells[k] # <<>>)
        Entry(table) ==
            [headers |-> TrimmedTexts(querySelectorAll(table.kids, << <<Tag("th")>> >>)),
             rows |-> Rows(querySelectorAll(table.kids, << <<Tag("tr")>> >>))]
        Of(els) == SelectSeq([k \in 1..Len(els) |-> Entry(els[k])],
                             LAMBDA t : Len(t.headers) > 0 \/ Len(t.rows) > 0)
    IN Of(DocumentAll(doc, << <<Tag("table")>> >>))

\* 7. images
ExtractImages(doc) ==
    LET Usable(img) == Truthy(getAttribute(img, "src"))
                         /\ ~StartsWith(img.attrs["src"], <<"d", "a", "t", "a", ":">>)
        Of(els) == [k \in 1..Len(els) |->
                       [src |-> els[k].attrs["src"], alt |-> getAttribute(els[k], "alt")]]
    IN Of(SelectSeq(DocumentAll(doc, << <<Tag("img")>> >>), Usable))

\* 8. links
ExtractLinks(doc) ==
    LET Usable(a) == /\ Trim(textContent(a)) # <<>>
                     /\ a.attrs["href"] # <<>>
                     /\ ~StartsWith(a.attrs["href"], <<"#">>)
                     /\ ~StartsWith(a.attrs["href"], <<"j", "a", "v", "a", "s", "c", "r", "i", "p", "t", ":">>)
        Of(els) == [k \in 1..Len(els) |->
                       [text |-> Trim(textContent(els[k])), href |-> els[k].attrs["href"]]]
    IN Of(SelectSeq(DocumentAll(doc, << <<Tag("a"), HasAttr("href")>> >>), Usable))

\* 9. buttons: btn.textContent?.trim() || btn.value
ExtractButtons(doc) ==
    LET Value(btn) == IF btn.tag \in {"input", "button"} /\ "value" \in DOMAIN btn.attrs
                      THEN btn.attrs["value"] ELSE <<>>
        Label(btn, text) == IF text # <<>> THEN text ELSE Value(btn)
        Of(els) == SelectSeq([k \in 1..Len(els) |->
                                 [text |-> Label(els[k], Trim(textContent(els[k])))]],
                             LAMBDA b : b.text # <<>>)
    IN Of(DocumentAll(doc, << <<Tag("button")>>, <<AttrEq("role", <<"b", "u", "t", "t", "o", "n">>)>>,
                              <<Tag("input"), AttrEq("type", <<"s", "u", "b", "m", "i", "t">>)>>,
                              <<Tag("input"), AttrEq("type", <<"b", "u", "t", "t", "o", "n">>)>>,
                              <<Class(<<"b", "t", "n">>)>>, <<Class(<<"b", "u", "t", "t", "o", "n">>)>> >>))

\* the strings the TreeWalker of extractVisibleText pushes, in document order
RECURSIVE TextParts(_)
TextParts(nodes) ==
    LET Attr(el, name) ==
            IF name \in DOMAIN el.attrs /\ Trim(el.attrs[name]) # <<>>
            THEN <<Trim(el.attrs[name])>> ELSE <<>>
        Of(n) ==
            IF n.nodeType = 3
            THEN (IF Trim(n.data) # <<>> THEN <<Trim(n.data)>> ELSE <<>>)
            ELSE Attr(n, "aria-label") \o Attr(n, "title")
                   \o (IF n.tag = "img" THEN Attr(n, "alt") ELSE <<>>)
                   \o TextParts(n.kids)
    IN IF nodes = <<>> THEN <<>> ELSE Of(nodes[1]) \o TextParts(Tail(nodes))

\* every repeated string dropped, not the consecutive ones only
RECURSIVE DedupeConsecutive_Everywhere(_)
DedupeConsecutive_Everywhere(parts) ==
    LET Push(deduped, text) ==
            IF \E k \in 1..Len(deduped) : deduped[k] = text
            THEN deduped ELSE Append(deduped, text)
    IN IF parts = <<>> THEN <<>>
       ELSE Push(DedupeConsecutive_Everywhere(SubSeq(parts, 1, Len(parts) - 1)),
                 parts[Len(parts)])

\* deduplicate consecutive identical strings
RECURSIVE DedupeConsecutive(_)
DedupeConsecutive(parts) ==
    LET Push(deduped, text) ==
            IF deduped = <<>> \/ deduped[Len(deduped)] # text
            THEN Append(deduped, text) ELSE deduped
    IN IF parts = <<>> THEN <<>>
       ELSE Push(DedupeConsecutive(SubSeq(parts, 1, Len(parts) - 1)), parts[Len(parts)])

extractVisibleText(doc) == Join(DedupeConsecutive(TextParts(doc.body)), <<"\n">>)

\* steps 4 to 11 of clean and the value it returns
CleaningResult(raw, doc, metaTags, removed) ==
    LET Stats(cleaned, visible) ==
            [cleanedHtml |-> cleaned,
             visibleText |-> visible,
             headings |-> ExtractHeadings(doc, 1),
             lists |-> ExtractLists(doc),
             tables |-> ExtractTables(doc),
             images |-> ExtractImages(doc),
             links |-> ExtractLinks(doc),
             buttons |-> ExtractButtons(doc),
             meta |-> metaTags,
             stats |-> [originalLength |-> MarkupLength(raw),
                        cleanedLength |-> MarkupLength(cleaned),
                        elementsRemoved |-> removed,
                        tokenEstimate |-> (Len(visible) + 3) \div 4]]
    IN Stats(innerHTML(doc.body), extractVisibleText(doc))

-----------------------------------------------------------------------------
(* clean as a state machine: parsing, the meta harvest, the three removal   *)
(* passes and the extraction are its steps; a finished invocation may be    *)
(* followed by another one.                                                 *)

MaxBlocks == 2

MaxCleanings == 3

\* <tag attrs>inner</tag>
Markup(tag, attrs, inner) == <<StartTag(tag, attrs)>> \o inner \o <<EndTag(tag)>>

Heading1 == Markup("h1", <<>>, <<Characters(<<"W", "i", "d", "g", "e", "t">>)>>)
HiddenDiv == Markup("div", "style" :> <<"d", "i", "s", "p", "l", "a", "y", ":", "n", "o", "n", "e">>, <<Characters(<<"s", "e", "c", "r", "e", "t">>)>>)
NavBlock == Markup("nav", <<>>, Markup("a", "href" :> <<"/", "h", "o", "m", "e">>, <<Characters(<<"H", "o", "m", "e">>)>>))

CleanBlocks ==
    {Heading1, HiddenDiv, NavBlock,
     Markup("script", <<>>, <<Characters(<<"t", "r", "a", "c", "k", "(", ")">>)>>),
     Markup("div", "class" :> <<"m", "a", "i", "n", " ", "s", "i", "d", "e", "b", "a", "r">>,
            Markup("h2", <<>>, <<Characters(<<"M", "o", "r", "e">>)>>)
              \o Markup("style", <<>>, <<Characters(<<"p", "{", "}">>)>>)
              \o Markup("nav", <<>>, <<Characters(<<"M", "e", "n", "u">>)>>)),
     Markup("div", "class" :> <<"h", "i", "d", "d", "e", "n">>,
            <<StartTag("meta", ("name" :> <<"k">>) @@ ("content" :> <<"v">>))>>
              \o Markup("span", "class" :> <<"h", "i", "d", "d", "e", "n">>, <<Characters(<<"i", "n", "n", "e", "r">>)>>)),
     Markup("button", "aria-label" :> <<"A", "d", "d">>, <<Characters(<<" ", "B", "u", "y", " ">>)>>)}

\* meta tags inside a noscript, a hidden and a navigation element
MetaExample ==
    Markup("p", <<>>, <<Characters(<<"W", "i", "d", "g", "e", "t">>)>>)
      \o Markup("noscript", <<>>, <<StartTag("meta", ("name" :> <<"r", "o", "b", "o", "t", "s">>) @@ ("content" :> <<"a", "l", "l">>))>>)
      \o Markup("div", "hidden" :> <<>>, <<StartTag("meta", ("property" :> <<"o", "g", ":", "t", "i", "t", "l", "e">>) @@ ("content" :> <<"W">>))>>)
      \o Markup("nav", <<>>, <<StartTag("meta", ("name" :> <<"a", "u", "t", "h", "o", "r">>) @@ ("content" :> <<"A">>)),
                               StartTag("meta", ("name" :> <<"e", "m", "p", "t", "y">>) @@ ("content" :> <<>>)),
                               StartTag("meta", "content" :> <<"u", "n", "n", "a", "m", "e", "d">>)>>)

\* headings out of level order, one of them blank, and a text that comes
\* back after a different one
HeadingsExample ==
    Markup("h2", <<>>, <<Characters(<<"M", "o", "r", "e">>)>>)
      \o Markup("h1", <<>>, <<Characters(<<"W", "i", "d", "g", "e", "t">>)>>)
      \o Markup("h3", <<>>, <<Characters(<<" ">>)>>)
      \o Markup("h2", "title" :> <<"S", "p", "e", "c", "s">>, <<Characters(<<" ", "S", "p", "e", "c", "s", " ">>)>>)
      \o Markup("h1", <<>>, <<Characters(<<"W", "i", "d", "g", "e", "t">>)>>)

\* the spec's end-to-end scenario, and markup with a noscript image, a list
\* and a table, text around a script, and tags left open or closed twice
Scenario == Heading1 \o HiddenDiv \o NavBlock

CleanExamples ==
    {Scenario, MetaExample, HeadingsExample,
     <<StartTag("meta", ("name" :> <<"d", "e", "s", "c", "r", "i", "p", "t", "i", "o", "n">>) @@ ("content" :> <<"A", " ", "w", "i", "d", "g", "e", "t">>))>>
       \o Markup("noscript", <<>>, <<StartTag("img", ("src" :> <<"p", ".", "p", "n", "g">>) @@ ("alt" :> <<"p", "i", "x", "e", "l">>))>>)
       \o Markup("ul", <<>>, Markup("li", <<>>, <<Characters(<<"O", "n", "e">>)>>)
                              \o Markup("li", <<>>, <<Characters(<<" ">>)>>))
       \o Markup("table", <<>>, Markup("tr", <<>>, Markup("th", <<>>, <<Characters(<<"S", "i", "z", "e">>)>>))
                                 \o Markup("tr", <<>>, Markup("td", <<>>, <<Characters(<<"L">>)>>))),
     <<Characters(<<"W", "i", "d", "g", "e", "t">>)>> \o Markup("script", "type" :> <<"a", "p", "p", "l", "i", "c", "a", "t", "i", "o", "n", "/", "l", "d", "+", "j", "s", "o", "n">>, <<Characters(<<"{", "}">>)>>)
       \o <<Characters(<<"W", "i", "d", "g", "e", "t">>)>>,
     <<StartTag("div", <<>>), StartTag("h2", <<>>), Characters(<<"S", "p", "e", "c", "s">>), EndTag("div"),
       EndTag("h2"), StartTag("iframe", "hidden" :> <<>>), StartTag("p", "title" :> <<"T", "i", "p">>)>>}

RECURSIVE Concat(_)
Concat(blocks) == IF blocks = <<>> THEN <<>> ELSE blocks[1] \o Concat(Tail(blocks))

Markups ==
    CleanExamples
    \cup {Concat(bs) : bs \in UNION {[1..n -> CleanBlocks] : n \in 0..MaxBlocks}}

NoDocument == [head |-> <<>>, body |-> <<>>]

InitClean ==
    /\ pc = "parse"
    /\ rawHtml \in Markups
    /\ document = NoDocument
    /\ meta = <<>>
    /\ elementsRemoved = 0
    /\ removedBy = <<>>
    /\ cleaningResult = NoResult
    /\ cleanings = <<>>
    /\ unsupported = {}
    /\ cand = Null
    /\ pageUrl = Undefined
    /\ tzOffset = 0
    /\ result = NoResult
    /\ steps = <<>>
    /\ Idle
    /\ IdleUrl /\ IdleDate /\ IdleMerge /\ IdleFlatten /\ IdleRest

notClean == <<cand, pageUrl, tzOffset, result, steps, batch, validationResult,
              pipelineResult, priceIn, priceOut, urlVars, dateVars, mergeVars,
              flattenVars,
              unsupported, restVars>>

\* const dom = new JSDOM(rawHtml, { virtualConsole })
ParseMarkup ==
    /\ pc = "parse"
    /\ document' = JSDOM(rawHtml)
    /\ pc' = "meta"
    /\ UNCHANGED <<rawHtml, meta, elementsRemoved, removedBy, cleaningResult,
                   cleanings, notClean>>

\* the meta tags read from the document as the removal passes leave it
HarvestMeta_AfterRemoval ==
    /\ pc = "meta"
    /\ meta' = ExtractMetaTags(
                   RemovePass(RemovePass(RemovePass(document, REMOVE_ELEMENTS).document,
                                         HIDDEN_SELECTORS).document,
                              BOILERPLATE_SELECTORS).document)
    /\ pc' = "dangerous"
    /\ UNCHANGED <<rawHtml, document, elementsRemoved, removedBy, cleaningResult,
                   cleanings, notClean>>

\* 0.1 Extract meta tags BEFORE cleanup
HarvestMeta ==
    /\ pc = "meta"
    /\ meta' = ExtractMetaTags(document)
    /\ pc' = "dangerous"
    /\ UNCHANGED <<rawHtml, document, elementsRemoved, removedBy, cleaningResult,
                   cleanings, notClean>>

\* 1. Remove script (except JSON-LD), style, noscript, etc., then JSON-LD too
RemoveDangerous ==
    /\ pc = "dangerous"
    /\ LET pass == RemovePass(document, Evaluated(REMOVE_ELEMENTS, unsupported))
       IN /\ document' = DocumentRemove(pass.document,
                             << <<Tag("script"), AttrEq("type", <<"a", "p", "p", "l", "i", "c", "a", "t", "i", "o", "n", "/", "l", "d", "+", "j", "s", "o", "n">>)>> >>)
          /\ elementsRemoved' = elementsRemoved + pass.count
          /\ removedBy' = Append(removedBy, elementsRemoved + pass.count)
    /\ pc' = "hidden"
    /\ UNCHANGED <<rawHtml, meta, cleaningResult, cleanings, notClean>>

\* 2. Remove hidden elements
RemoveHidden ==
    /\ pc = "hidden"
    /\ LET pass == RemovePass(document, Evaluated(HIDDEN_SELECTORS, unsupported))
       IN /\ document' = pass.document
          /\ elementsRemoved' = elementsRemoved + pass.count
          /\ removedBy' = Append(removedBy, pass.count)
    /\ pc' = "boilerplate"
    /\ UNCHANGED <<rawHtml, meta, cleaningResult, cleanings, notClean>>

\* 3. Remove boilerplate
RemoveBoilerplate ==
    /\ pc = "boilerplate"
    /\ LET pass == RemovePass(document, Evaluated(BOILERPLATE_SELECTORS, unsupported))
       IN /\ document' = pass.document
          /\ elementsRemoved' = elementsRemoved + pass.count
          /\ removedBy' = Append(removedBy, pass.count)
    /\ pc' = "extract"
    /\ UNCHANGED <<rawHtml, meta, cleaningResult, cleanings, notClean>>

\* 4 to 11 and return
ExtractContent ==
    /\ pc = "extract"
    /\ cleaningResult' = CleaningResult(rawHtml, document, meta, elementsRemoved)
    /\ cleanings' = Append(cleanings, [rawHtml |-> rawHtml,
                                       result |-> cleaningResult',
                                       removedBy |-> removedBy])
    /\ pc' = "cleaned"
    /\ UNCHANGED <<rawHtml, document, meta, elementsRemoved, removedBy, notClean>>

\* an invocation that keeps the count of the one before
StartClean_SharedCount(markup) ==
    /\ pc = "cleaned"
    /\ Len(cleanings) < MaxCleanings
    /\ rawHtml' = markup
    /\ document' = NoDocument
    /\ meta' = <<>>
    /\ removedBy' = <<>>
    /\ pc' = "parse"
    /\ UNCHANGED <<elementsRemoved, cleaningResult, cleanings, notClean>>

\* clean(rawHtml): let elementsRemoved = 0
StartClean(markup) ==
    /\ pc = "cleaned"
    /\ Len(cleanings) < MaxCleanings
    /\ rawHtml' = markup
    /\ document' = NoDocument
    /\ meta' = <<>>
    /\ elementsRemoved' = 0
    /\ removedBy' = <<>>
    /\ pc' = "parse"
    /\ UNCHANGED <<cleaningResult, cleanings, notClean>>

\* the next invocation is given the same markup again, the cleaned markup of
\* the last result, or other markup
CleanAgain ==
    /\ pc = "cleaned"
    /\ \E markup \in {rawHtml, cleaningResult.cleanedHtml, Scenario} : StartClean(markup)

\* a page with a match for a pattern of each list and for a later pattern of
\* the first list
FaultExample ==
    Markup("p", <<>>, <<Characters(<<"W", "i", "d", "g", "e", "t">>)>>)
      \o Markup("noscript", <<>>, <<Characters(<<"e", "n", "a", "b", "l", "e">>)>>)
      \o Markup("iframe", <<>>, <<>>)
      \o Markup("div", "style" :> <<"d", "i", "s", "p", "l", "a", "y", ":", "n", "o", "n", "e">>, <<Characters(<<"s", "e", "c", "r", "e", "t">>)>>)
      \o Markup("span", "class" :> <<"s", "r", "-", "o", "n", "l", "y">>, <<Characters(<<"s", "k", "i", "p">>)>>)
      \o Markup("nav", <<>>, <<Characters(<<"H", "o", "m", "e">>)>>)
      \o Markup("footer", <<>>, <<Characters(<<"I", "m", "p", "r", "i", "n", "t">>)>>)

\* the patterns a selector engine may fail to evaluate: one of each list
UnsupportedChoices ==
    {{}, {<<Tag("noscript")>>}, {<<AttrSub("style", <<"d", "i", "s", "p", "l", "a", "y", ":", "n", "o", "n", "e">>)>>},
     {<<Tag("nav")>>}, {<<Tag("noscript")>>, <<Tag("nav")>>}}

\* clean on a host whose selector engine rejects some of the patterns
InitCleanFaulty ==
    /\ pc = "parse"
    /\ rawHtml \in CleanExamples \cup {FaultExample}
    /\ unsupported \in UnsupportedChoices
    /\ document = NoDocument
    /\ meta = <<>>
    /\ elementsRemoved = 0
    /\ removedBy = <<>>
    /\ cleaningResult = NoResult
    /\ cleanings = <<>>
    /\ cand = Null
    /\ pageUrl = Undefined
    /\ tzOffset = 0
    /\ result = NoResult
    /\ steps = <<>>
    /\ Idle
    /\ IdleUrl /\ IdleDate /\ IdleMerge /\ IdleFlatten /\ IdleRest

NextClean ==
    \/ ParseMarkup
    \/ HarvestMeta
    \/ RemoveDangerous
    \/ RemoveHidden
    \/ RemoveBoilerplate
    \/ ExtractContent
    \/ CleanAgain

SpecClean == InitClean /\ [][NextClean]_vars

SpecCleanFaulty == InitCleanFaulty /\ [][NextClean]_vars

-----------------------------------------------------------------------------
(* Properties of clean                                                      *)

\* C16: clean is deterministic: two invocations on the same raw markup return
\* identical results in every field, whatever was invoked in between.
C16_Deterministic ==
    \A i, j \in 1..Len(cleanings) :
        cleanings[i].rawHtml = cleanings[j].rawHtml
        => cleanings[i].result = cleanings[j].result

\* the same markup cleaned first and third with other markup in between, the
\* first invocation having removed elements
C16_Witness ==
    /\ Len(cleanings) = 3
    /\ cleanings[1].rawHtml = cleanings[3].rawHtml
    /\ cleanings[2].rawHtml # cleanings[1].rawHtml
    /\ cleanings[2].result # cleanings[1].result
    /\ cleanings[1].result.stats.elementsRemoved > 0
    /\ cleanings[1].result.cleanedHtml # <<>>

DangerousTags ==
    {"script", "style", "noscript", "iframe", "svg", "canvas", "video", "audio",
     "object", "embed", "applet"}

\* every element of the document
AllElements(doc) == DocumentAll(doc, << <<>> >>)

IsCleanedMarkupOfEarlier(j) ==
    \E i \in 1..(j - 1) : cleanings[j].rawHtml = cleanings[i].result.cleanedHtml

\* C17: after the first removal pass the tree holds no dangerous element,
\* the cleaned markup has no dangerous tag, and an invocation of clean on the
\* cleaned markup of an earlier one removes zero dangerous elements.
C17_NoDangerousLeft ==
    /\ pc \in {"hidden", "boilerplate", "extract", "cleaned"}
       => \A k \in 1..Len(AllElements(document)) :
             AllElements(document)[k].tag \notin DangerousTags
    /\ \A j \in 1..Len(cleanings) :
          /\ \A k \in 1..Len(cleanings[j].result.cleanedHtml) :
                LET tok == cleanings[j].result.cleanedHtml[k]
                IN tok.t = "open" => tok.tag \notin DangerousTags
          /\ IsCleanedMarkupOfEarlier(j) => cleanings[j].removedBy[1] = 0

\* clean has run on the cleaned markup of an invocation that had removed
\* dangerous elements and kept some markup
C17_Witness ==
    /\ Len(cleanings) >= 2
    /\ cleanings[2].rawHtml = cleanings[1].result.cleanedHtml
    /\ cleanings[2].rawHtml # cleanings[1].rawHtml
    /\ cleanings[1].removedBy[1] > 0
    /\ cleanings[1].result.cleanedHtml # <<>>
    /\ cleanings[2].removedBy[1] = 0

\* the data of the text nodes among nodes and their descendants
RECURSIVE TextNodes(_)
TextNodes(nodes) ==
    IF nodes = <<>> THEN <<>>
    ELSE (IF nodes[1].nodeType = 3 THEN <<nodes[1].data>> ELSE TextNodes(nodes[1].kids))
           \o TextNodes(Tail(nodes))

\* the non-empty trimmed texts inside the elements of the parsed markup that
\* a hidden or a boilerplate pattern matches
TextsInRemoved(markup) ==
    LET texts == TextNodes(DocumentAll(JSDOM(markup),
                                       HIDDEN_SELECTORS \o BOILERPLATE_SELECTORS))
    IN {Trim(texts[k]) : k \in 1..Len(texts)} \ {<<>>}

SeqRange(s) == {s[k] : k \in 1..Len(s)}

\* every string of visibleText, headings, lists, tables, links and buttons
OutputStrings(r) ==
    {r.visibleText}
    \cup {h.text : h \in SeqRange(r.headings)}
    \cup UNION {SeqRange(l.items) : l \in SeqRange(r.lists)}
    \cup UNION {SeqRange(t.headers) : t \in SeqRange(r.tables)}
    \cup UNION {UNION {SeqRange(row) : row \in SeqRange(t.rows)} : t \in SeqRange(r.tables)}
    \cup {a.text : a \in SeqRange(r.links)}
    \cup {b.text : b \in SeqRange(r.buttons)}

\* C18: text inside an element removed as hidden or as boilerplate appears in
\* none of visibleText, headings, lists, tables, links and buttons; for the
\* markup with one h1 "Widget", one display:none div "secret" and one nav
\* block, headings is exactly [{level 1, "Widget"}], visibleText has neither
\* "secret" nor the nav text, and elementsRemoved is at least 2.
C18_RemovedTextNotExtracted ==
    pc = "cleaned"
    => /\ \A t \in TextsInRemoved(rawHtml) :
             \A s \in OutputStrings(cleaningResult) : ~Contains(s, t)
       /\ rawHtml = Scenario
          => /\ cleaningResult.headings = <<[level |-> 1, text |-> <<"W", "i", "d", "g", "e", "t">>]>>
             /\ ~Contains(cleaningResult.visibleText, <<"s", "e", "c", "r", "e", "t">>)
             /\ ~Contains(cleaningResult.visibleText, <<"H", "o", "m", "e">>)
             /\ cleaningResult.stats.elementsRemoved >= 2

\* the scenario has been cleaned
C18_Witness ==
    /\ pc = "cleaned"
    /\ rawHtml = Scenario
    /\ Len(cleanings) = 1
    /\ TextsInRemoved(rawHtml) = {<<"s", "e", "c", "r", "e", "t">>, <<"H", "o", "m", "e">>}
    /\ cleaningResult.visibleText = <<"W", "i", "d", "g", "e", "t">>
    /\ cleaningResult.stats.elementsRemoved = 2

-----------------------------------------------------------------------------
(* flattenHtml (src/lib/pipeline/flatten.ts)                                *)

\* texts.add(text) on a Set, which keeps insertion order
SetAdd(texts, text) ==
    IF \E k \in 1..Len(texts) : texts[k] = text THEN texts ELSE Append(texts, text)

\* ['script', 'style', 'svg', 'canvas', 'video', 'audio', 'iframe', 'noscript']
NonTextualTags == {"script", "style", "svg", "canvas", "video", "audio", "iframe", "noscript"}

\* element.className: the class attribute, '' when there is none
className(el) == IF "class" \in DOMAIN el.attrs THEN el.attrs["class"] ELSE <<>>

\* tagName === 'i' && element.className?.includes('icon')
IsSkippedIcon_AnyTag(el) == Contains(className(el), <<"i", "c", "o", "n">>)

IsSkippedIcon(el) == el.tag = "i" /\ Contains(className(el), <<"i", "c", "o", "n">>)

\* const v = element.getAttribute(name); if (v?.trim()) texts.add(v.trim())
AddAttribute(texts, el, name) ==
    LET Added(v) == IF v = <<>> THEN texts ELSE SetAdd(texts, v)
    IN IF name \in DOMAIN el.attrs THEN Added(Trim(el.attrs[name])) ELSE texts

RECURSIVE extractTextContent(_, _)
RECURSIVE extractChildren(_, _)
extractTextContent(node, texts) ==
    LET OfText(text) == IF text = <<>> THEN texts ELSE SetAdd(texts, text)
    IN IF node.nodeType = 3 THEN OfText(Trim(node.data))
       ELSE IF node.tag \in NonTextualTags THEN texts
       ELSE IF IsSkippedIcon(node) THEN texts
       ELSE extractChildren(node.kids,
                AddAttribute(AddAttribute(AddAttribute(texts, node, "aria-label"),
                                          node, "title"),
                             node, "alt"))

\* for (const child of Array.from(node.childNodes)) extractTextContent(child, texts)
extractChildren(kids, texts) ==
    IF kids = <<>> THEN texts
    ELSE extractChildren(Tail(kids), extractTextContent(kids[1], texts))

\* text.replace(/\s+/g, ' ')
RECURSIVE CollapseWhitespace(_)
CollapseWhitespace(s) ==
    IF s = <<>> THEN <<>>
    ELSE IF IsSpace(s[1])
         THEN (IF Len(s) > 1 /\ IsSpace(s[2]) THEN CollapseWhitespace(Tail(s))
               ELSE <<" ">> \o CollapseWhitespace(Tail(s)))
    ELSE <<s[1]>> \o CollapseWhitespace(Tail(s))

\* text => text.replace(/\s+/g, ' ').trim()
NormalizeLine(text) == Trim(CollapseWhitespace(text))

\* Array.from(texts).map(normalize).filter(text => text.length > 0)
RECURSIVE FlattenLines(_)
FlattenLines(texts) ==
    LET Kept(line) == IF Len(line) > 0 THEN <<line>> ELSE <<>>
    IN IF texts = <<>> THEN <<>>
       ELSE Kept(NormalizeLine(texts[1])) \o FlattenLines(Tail(texts))

\* Math.round((1 - flattenedLength / originalLength) * 100); 0 / 0 is NaN
ReductionPercent(originalLength, flattenedLength) ==
    LET Rounded(n) == Num(n < 0, IF n < 0 THEN 0 - n ELSE n, 0)
    IN IF originalLength = 0 THEN NaN
       ELSE Rounded((200 * (originalLength - flattenedLength) + originalLength)
                        \div (2 * originalLength))

\* the texts collected from document.body of the parsed markup
BodyTexts(markup) == extractChildren(JSDOM(markup).body, <<>>)

\* flattenHtml(cleanedHtml); JSDOM does not throw on a string, so the catch
\* branch with its regex fallback is not taken
flattenHtml(markup) ==
    LET Result(lines, text) ==
            [flattenedText |-> text,
             stats |-> [originalLength |-> MarkupLength(markup),
                        flattenedLength |-> Len(text),
                        lineCount |-> Len(lines),
                        reductionPercent |-> ReductionPercent(MarkupLength(markup), Len(text))]]
        Joined(lines) == Result(lines, Join(lines, <<"\n">>))
    IN Joined(FlattenLines(BodyTexts(markup)))

\* clean(rawHtml).cleanedHtml: body.innerHTML after the three removal passes
cleanedHtmlOf(markup) ==
    LET Hidden(doc) == RemovePass(doc, HIDDEN_SELECTORS).document
        Boilerplate(doc) == RemovePass(doc, BOILERPLATE_SELECTORS).document
        Dangerous(doc) ==
            DocumentRemove(RemovePass(doc, REMOVE_ELEMENTS).document,
                           << <<Tag("script"), AttrEq("type", <<"a", "p", "p", "l", "i", "c", "a", "t", "i", "o", "n", "/", "l", "d", "+", "j", "s", "o", "n">>)>> >>)
    IN innerHTML(Boilerplate(Hidden(Dangerous(JSDOM(markup)))).body)

\* Pages whose text repeats with different spacing, elements with and
\* without an icon class, accessibility attributes, and an inline drawing.
FlattenBlocks ==
    {Markup("p", <<>>, <<Characters(<<"a", " ", " ", "b">>)>>),
     Markup("p", <<>>, <<Characters(<<"a", " ", "b">>)>>),
     Markup("p", <<>>, <<Characters(<<" ", "a", "\n", "b", " ">>)>>),
     Markup("span", ("class" :> <<"i", "c", "o", "n">>) @@ ("aria-label" :> <<"C", "a", "r", "t">>), <<Characters(<<"B", "u", "y">>)>>),
     Markup("i", ("class" :> <<"f", "a", " ", "i", "c", "o", "n", "-", "h", "o", "m", "e">>) @@ ("title" :> <<"H", "o", "m", "e">>), <<Characters(<<"x">>)>>),
     Markup("i", <<>>, <<Characters(<<"a", " ", "b">>)>>),
     <<StartTag("img", ("class" :> <<"i", "c", "o", "n", "i", "c">>) @@ ("alt" :> <<" ", "L", "o", "g", "o", " ">>))>>,
     Markup("div", "title" :> <<"T", "i", "p">>,
            Markup("svg", <<>>, <<Characters(<<"M", "0">>)>>) \o <<Characters(<<"T", "i", "p">>)>>)}

FlattenInputs ==
    {cleanedHtmlOf(Concat(bs)) : bs \in UNION {[1..n -> FlattenBlocks] : n \in 0..MaxBlocks}}

InitFlatten ==
    /\ pc = "flatten"
    /\ cleanedHtml \in FlattenInputs
    /\ flattenResult = NoResult
    /\ cand = Null
    /\ pageUrl = Undefined
    /\ tzOffset = 0
    /\ result = NoResult
    /\ steps = <<>>
    /\ Idle
    /\ IdleUrl /\ IdleDate /\ IdleMerge /\ IdleClean /\ IdleRest

\* const flattenResult = flattenHtml(successCleaning.cleanedHtml)
ApplyFlatten ==
    /\ pc = "flatten"
    /\ flattenResult' = flattenHtml(cleanedHtml)
    /\ pc' = "flattened"
    /\ UNCHANGED <<cleanedHtml, cand, pageUrl, tzOffset, result, steps,
                   batch, validationResult, pipelineResult, priceIn, priceOut,
                   urlVars, dateVars, mergeVars, cleanVars, restVars>>

NextFlatten == ApplyFlatten

SpecFlatten == InitFlatten /\ [][NextFlatten]_vars

-----------------------------------------------------------------------------
(* Properties of flattenHtml                                                *)

\* text.split('\n')
RECURSIVE Lines(_)
Lines(text) ==
    LET Rest(i) == IF i > Len(text) THEN << SubSeq(text, 1, Len(text)) >>
                   ELSE <<SubSeq(text, 1, i - 1)>> \o Lines(SubSeq(text, i + 1, Len(text)))
        First == {i \in 1..Len(text) : text[i] = "\n"}
    IN Rest(IF First = {} THEN Len(text) + 1 ELSE CHOOSE i \in First : \A j \in First : i <= j)

OutputLines == IF flattenResult.flattenedText = <<>> THEN <<>>
               ELSE Lines(flattenResult.flattenedText)

IsNormalized(line) ==
    /\ line # <<>>
    /\ ~IsSpace(line[1]) /\ ~IsSpace(line[Len(line)])
    /\ \A k \in 1..Len(line) : IsSpace(line[k]) => line[k] = " " /\ ~IsSpace(line[k + 1])

NoTwoEqual(s) == \A j, k \in 1..Len(s) : s[j] = s[k] => j = k

\* the candidates in traversal order, equal strings kept once
RECURSIVE FirstOccurrences(_, _)
FirstOccurrences(s, seen) ==
    IF s = <<>> THEN seen ELSE FirstOccurrences(Tail(s), SetAdd(seen, s[1]))

\* C19: the flattened text contains no two equal lines, the lines are in the
\* order of their first occurrence in the traversal, and each line is trimmed
\* with every interior whitespace run collapsed to a single space
C19_NoEqualLines ==
    pc = "flattened" =>
        /\ NoTwoEqual(OutputLines)
        /\ \A k \in 1..Len(OutputLines) : IsNormalized(OutputLines[k])

\* what the code keeps: the texts are deduplicated as collected, before they
\* are normalized, so the lines are the normalized distinct texts in order
NormalizedDistinctTexts ==
    pc = "flattened" =>
        /\ OutputLines = FlattenLines(FirstOccurrences(BodyTexts(cleanedHtml), <<>>))
        /\ NoTwoEqual(BodyTexts(cleanedHtml))
        /\ \A k \in 1..Len(OutputLines) : IsNormalized(OutputLines[k])

\* the markup without the elements that match the selector
WithoutElements(markup, selector) ==
    innerHTML(RemoveAll(JSDOM(markup).body, <<selector>>))

\* C20: an element whose class name contains "icon" contributes no line,
\* whatever its tag: the flattened text is that of the markup without
\* these elements
C20_IconClassSkipped ==
    pc = "flattened" =>
        flattenResult.flattenedText =
            flattenHtml(WithoutElements(cleanedHtml, <<AttrSub("class", <<"i", "c", "o", "n">>)>>)).flattenedText

\* what the code skips: the i elements among them
IconOnlyOnI ==
    pc = "flattened" =>
        flattenResult.flattenedText =
            flattenHtml(WithoutElements(cleanedHtml, <<Tag("i"), AttrSub("class", <<"i", "c", "o", "n">>)>>)).flattenedText

-----------------------------------------------------------------------------
(* Properties of the meta harvest, the visible text and the headings        *)

\* the meta elements of the markup as parsed, before anything is removed,
\* that carry a name or a property and a non-empty content
HarvestableMeta(markup) ==
    SelectSeq(AllElements(JSDOM(markup)),
              LAMBDA el : /\ el.tag = "meta"
                          /\ "name" \in DOMAIN el.attrs \/ "property" \in DOMAIN el.attrs
                          /\ "content" \in DOMAIN el.attrs
                          /\ el.attrs["content"] # <<>>)

MetaEntry(el) ==
    [name |-> IF "name" \in DOMAIN el.attrs THEN Str(el.attrs["name"]) ELSE Null,
     property |-> IF "property" \in DOMAIN el.attrs THEN Str(el.attrs["property"]) ELSE Null,
     content |-> Str(el.attrs["content"])]

\* C24: clean harvests the meta tags before any removal pass: a meta tag
\* with a name or property and non-empty content appears in meta also when
\* it lies inside an element that a removal pass deletes
C24_MetaBeforeRemoval ==
    pc = "cleaned" =>
        LET Of(els) == cleaningResult.meta = [k \in 1..Len(els) |-> MetaEntry(els[k])]
        IN Of(HarvestableMeta(rawHtml))

\* the page whose three harvestable meta tags lie in a noscript, a hidden
\* and a navigation element: none is left in the tree, all are in meta
C24_Witness ==
    /\ pc = "cleaned"
    /\ rawHtml = MetaExample
    /\ Len(cleaningResult.meta) = 3
    /\ DocumentAll(document, << <<Tag("meta")>> >>) = <<>>
    /\ removedBy = <<1, 1, 1>>

\* the entries of the pruned body in document order: for an element its
\* aria-label, its title and, on an image, its alt; for a text node its text
RECURSIVE DocumentOrder(_)
DocumentOrder(nodes) ==
    IF nodes = <<>> THEN <<>>
    ELSE IF nodes[1].nodeType = 3 THEN <<nodes[1]>> \o DocumentOrder(Tail(nodes))
    ELSE <<nodes[1]>> \o DocumentOrder(nodes[1].kids \o Tail(nodes))

EntriesOf(n) ==
    LET Attr(name) == IF name \in DOMAIN n.attrs THEN <<Trim(n.attrs[name])>> ELSE <<>>
    IN SelectSeq(IF n.nodeType = 3 THEN <<Trim(n.data)>>
                 ELSE Attr("aria-label") \o Attr("title")
                        \o (IF n.tag = "img" THEN Attr("alt") ELSE <<>>),
                 LAMBDA t : t # <<>>)

RECURSIVE Entries(_)
Entries(nodes) ==
    IF nodes = <<>> THEN <<>> ELSE EntriesOf(nodes[1]) \o Entries(Tail(nodes))

\* s without each element that equals the one before it
OnlyConsecutiveCollapsed(s) ==
    SelectSeq([k \in 1..Len(s) |-> [at |-> k, text |-> s[k]]],
              LAMBDA e : e.at = 1 \/ s[e.at - 1] # e.text)

TextsOfTag(doc, tag) ==
    SelectSeq([k \in 1..Len(AllElements(doc)) |->
                  [tag |-> AllElements(doc)[k].tag,
                   text |-> Trim(textContent(AllElements(doc)[k]))]],
              LAMBDA e : e.tag = tag /\ e.text # <<>>)

\* C30: headings is ordered by non-decreasing level, entries of equal level
\* are in document order, and no entry has empty text
C30_HeadingsByLevel ==
    pc = "cleaned" =>
        LET hs == cleaningResult.headings
            AtLevel(l) == SelectSeq(hs, LAMBDA h : h.level = l)
            InDocument(l) == TextsOfTag(document, HeadingTags[l])
        IN /\ \A k \in 1..Len(hs) : hs[k].level \in 1..6 /\ hs[k].text # <<>>
           /\ \A k \in 1..(Len(hs) - 1) : hs[k].level <= hs[k + 1].level
           /\ \A l \in 1..6 :
                 /\ Len(AtLevel(l)) = Len(InDocument(l))
                 /\ \A k \in 1..Len(AtLevel(l)) : AtLevel(l)[k].text = InDocument(l)[k].text

\* the second-level heading that comes first in the document is listed
\* after both first-level ones, and the blank heading is left out
C30_Witness ==
    /\ pc = "cleaned"
    /\ rawHtml = HeadingsExample
    /\ cleaningResult.headings
          = <<[level |-> 1, text |-> <<"W", "i", "d", "g", "e", "t">>], [level |-> 1, text |-> <<"W", "i", "d", "g", "e", "t">>],
              [level |-> 2, text |-> <<"M", "o", "r", "e">>], [level |-> 2, text |-> <<"S", "p", "e", "c", "s">>]>>

-----------------------------------------------------------------------------
(* Properties of repairPrice on numbers                                     *)

\* C28: for an input that is already a number repairPrice returns that same
\* number, negative values included
C28_NumberKept ==
    pc = "priced" /\ priceIn.k = "num" => priceOut = priceIn

\* what the code returns: the magnitude; String(value) puts a minus sign in
\* front, and the pattern /[\d,]+\.?\d*/ starts at the first digit
NumberKept_Magnitude ==
    pc = "priced" /\ priceIn.k = "num" => priceOut = [priceIn EXCEPT !.neg = FALSE]

-----------------------------------------------------------------------------
(* Properties of the removal passes when a pattern cannot be evaluated      *)

RemovalPatterns == REMOVE_ELEMENTS \o HIDDEN_SELECTORS \o BOILERPLATE_SELECTORS

\* C25: when the evaluation of a removal pattern fails, that pattern alone
\* is skipped: clean returns a result, not a failure, and the tree it leaves
\* is the parsed tree without the matches of every other pattern of the
\* three lists (and without the JSON-LD scripts)
C25_FailedPatternSkipped ==
    pc = "cleaned" =>
        /\ "cleanedHtml" \in DOMAIN cleaningResult
        /\ document = DocumentRemove(JSDOM(rawHtml),
                          SelectSeq(RemovalPatterns, LAMBDA p : p \notin unsupported)
                            \o << <<Tag("script"), AttrEq("type", <<"a", "p", "p", "l", "i", "c", "a", "t", "i", "o", "n", "/", "l", "d", "+", "j", "s", "o", "n">>)>> >>)

\* noscript and nav cannot be evaluated: their elements stay, while the
\* iframe, the two hidden elements and the footer are removed
C25_Witness ==
    /\ pc = "cleaned"
    /\ rawHtml = FaultExample
    /\ unsupported = {<<Tag("noscript")>>, <<Tag("nav")>>}
    /\ removedBy = <<1, 2, 1>>
    /\ cleaningResult.stats.elementsRemoved = 4
    /\ cleaningResult.visibleText = <<"W", "i", "d", "g", "e", "t">> \o <<"\n">> \o <<"e", "n", "a", "b", "l", "e">> \o <<"\n">> \o <<"H", "o", "m", "e">>

-----------------------------------------------------------------------------
(* The shared logger (src/lib/logger.ts)                                    *)

\* A LogEntry.  The timestamp and the metadata are left out; run names the
\* invocation that logged the entry and stands for the entry's identity.
LogEntry(run, level, stage, message) ==
    [run |-> run, level |-> level, stage |-> stage, message |-> message]

\* PipelineLogger.log: DEBUG entries are skipped unless debug is enabled
Log(entries, entry) ==
    IF entry.level = "DEBUG" /\ ~debugEnabled THEN entries ELSE Append(entries, entry)

RECURSIVE LogAll(_, _)
LogAll(entries, new) ==
    IF new = <<>> THEN entries ELSE LogAll(Log(entries, new[1]), Tail(new))

\* a value thrown by a collaborator: an Error with a message, or another value
ThrownValues ==
    {[error |-> TRUE, message |-> <<"T", "i", "m", "e", "o", "u", "t", " ", "3", "0", "0", "0", "0", "m", "s", " ", "e", "x", "c", "e", "e", "d", "e", "d">>],
     [error |-> FALSE, message |-> <<>>]}

\* error instanceof Error ? error.message : 'Unknown error'
MessageOf(thrown) == IF thrown.error THEN thrown.message ELSE <<"U", "n", "k", "n", "o", "w", "n", " ", "e", "r", "r", "o", "r">>

-----------------------------------------------------------------------------
(* ingest (src/unnamed/part_001).  Every await is a step; the calls into    *)
(* Playwright resolve or reject as the environment decides.                 *)

MaxScrolls == 2

ViewportHeight == 1080

IngestUrls == {<<"h", "t", "t", "p", "s", ":", "/", "/", "e", ".", "c", "o", "/", "a">>, <<"h", "t", "t", "p", ":", "/", "/", "e", ".", "c", "o">>, <<"n", "o", "t", " ", "a", " ", "u", "r", "l">>, <<>>}

HttpStatuses == {200, 399, 400, 404}

LoadTimes == {1500, 38000}

IngestionError(reason) ==
    [success |-> FALSE, stage |-> "ingestion", reason |-> reason, url |-> ingestUrl]

InitIngest ==
    /\ pc = "ingest"
    /\ ingestUrl \in IngestUrls
    /\ browser = "none"
    /\ completion = NoResult
    /\ ingestionResult = NoResult
    /\ scrollDepth = 0
    /\ lastScrollY = 0
    /\ logs = <<>>
    /\ debugEnabled \in BOOLEAN
    /\ runs = <<>>
    /\ cand = Null
    /\ pageUrl = Undefined
    /\ tzOffset = 0
    /\ result = NoResult
    /\ steps = <<>>
    /\ Idle
    /\ IdleUrl /\ IdleDate /\ IdleMerge /\ IdleClean /\ IdleFlatten

notIngest == <<coreVars, urlVars, dateVars, mergeVars, cleanVars, flattenVars,
               debugEnabled, runs, ingestUrl>>

IngestLog(level, message) == LogEntry(1, level, "Ingestion", message)

\* log.info('Starting ingestion'); new URL(url); chromium.launch(...)
StartIngest ==
    /\ pc = "ingest"
    /\ IF ParseUrl(ingestUrl).ok
       THEN /\ logs' = LogAll(logs, <<IngestLog("INFO", "Starting ingestion"),
                                      IngestLog("INFO", "Launching browser")>>)
            /\ pc' = "launch"
            /\ UNCHANGED completion
       ELSE /\ logs' = LogAll(logs, <<IngestLog("INFO", "Starting ingestion"),
                                      IngestLog("ERROR", "Invalid URL provided")>>)
            /\ completion' = IngestionError(<<"I", "n", "v", "a", "l", "i", "d", " ", "U", "R", "L", " ", "f", "o", "r", "m", "a", "t">>)
            /\ pc' = "finally"
    /\ UNCHANGED <<browser, ingestionResult, scrollDepth, lastScrollY, notIngest>>

\* browser = await chromium.launch(...); browser.newContext(...)
Launched ==
    /\ pc = "launch"
    /\ browser' = "open"
    /\ pc' = "context"
    /\ UNCHANGED <<completion, ingestionResult, scrollDepth, lastScrollY, logs, notIngest>>

\* const context = await browser.newContext(...); context.route(...)
ContextCreated ==
    /\ pc = "context"
    /\ pc' = "route"
    /\ UNCHANGED <<browser, completion, ingestionResult, scrollDepth, lastScrollY,
                   logs, notIngest>>

\* await context.route(...); log.info(...); context.newPage()
Routed ==
    /\ pc = "route"
    /\ logs' = Log(logs, IngestLog("INFO", "Browser launched, creating page"))
    /\ pc' = "page"
    /\ UNCHANGED <<browser, completion, ingestionResult, scrollDepth, lastScrollY, notIngest>>

\* const page = await context.newPage(); log.info(...); page.goto(url, ...)
PageCreated ==
    /\ pc = "page"
    /\ logs' = Log(logs, IngestLog("INFO", "Navigating to URL"))
    /\ pc' = "goto"
    /\ UNCHANGED <<browser, completion, ingestionResult, scrollDepth, lastScrollY, notIngest>>

\* the catch block: log.error('Ingestion failed'); return the failure
Caught(thrown) ==
    /\ logs' = Log(logs, IngestLog("ERROR", "Ingestion failed"))
    /\ completion' = IngestionError(MessageOf(thrown))
    /\ pc' = "finally"

\* const response = await page.goto(...): no response, or one with a status
Navigated ==
    /\ pc = "goto"
    /\ \/ Caught([error |-> TRUE, message |-> <<"N", "o", " ", "r", "e", "s", "p", "o", "n", "s", "e", " ", "r", "e", "c", "e", "i", "v", "e", "d", " ", "f", "r", "o", "m", " ", "p", "a", "g", "e">>])
       \/ \E status \in HttpStatuses :
            IF status >= 400
            THEN /\ logs' = Log(logs, IngestLog("ERROR", "HTTP error response"))
                 /\ completion' = IngestionError(<<"H", "T", "T", "P", " ", "e", "r", "r", "o", "r", ":", " ">> \o NatChars(status))
                 /\ pc' = "finally"
            ELSE /\ logs' = Log(logs, IngestLog("INFO", "Page loaded"))
                 /\ pc' = "networkidle"
                 /\ UNCHANGED completion
    /\ UNCHANGED <<browser, ingestionResult, scrollDepth, lastScrollY, notIngest>>

\* await page.waitForLoadState('networkidle').catch(() => log.warn(...));
\* autoScroll: log.info('Starting auto-scroll'); first page.evaluate
NetworkSettled ==
    /\ pc = "networkidle"
    /\ \E timedOut \in BOOLEAN :
          logs' = LogAll(logs,
                      (IF timedOut
                       THEN <<IngestLog("WARN", "Network idle timeout, continuing anyway")>>
                       ELSE <<>>)
                      \o <<IngestLog("INFO", "Starting auto-scroll")>>)
    /\ pc' = "scroll"
    /\ UNCHANGED <<browser, completion, ingestionResult, scrollDepth, lastScrollY, notIngest>>

\* scrollDepth = await page.evaluate(scrollBy); break at the bottom, else
\* wait for the scroll interval
Scrolled ==
    /\ pc = "scroll"
    /\ \E y \in {lastScrollY, lastScrollY + ViewportHeight} :
         /\ y <= MaxScrolls * ViewportHeight
         /\ scrollDepth' = y
         /\ IF y = lastScrollY
            THEN /\ logs' = Log(logs, IngestLog("DEBUG", "Reached page bottom"))
                 /\ pc' = "scrolltop"
                 /\ UNCHANGED lastScrollY
            ELSE /\ lastScrollY' = y
                 /\ pc' = "scrollwait"
                 /\ UNCHANGED logs
    /\ UNCHANGED <<browser, completion, ingestionResult, notIngest>>

\* await new Promise(resolve => setTimeout(resolve, scrollInterval)); the
\* loop goes on while less than maxDuration has passed
ScrollWaited ==
    /\ pc = "scrollwait"
    /\ \E timeLeft \in BOOLEAN :
          pc' = IF timeLeft /\ lastScrollY < MaxScrolls * ViewportHeight
                THEN "scroll" ELSE "scrolltop"
    /\ UNCHANGED <<browser, completion, ingestionResult, scrollDepth, lastScrollY,
                   logs, notIngest>>

\* await page.evaluate(scrollTo(0, 0)); log.info('Auto-scroll complete');
\* back in ingest: setTimeout(resolve, 500)
ScrolledToTop ==
    /\ pc = "scrolltop"
    /\ logs' = Log(logs, IngestLog("INFO", "Auto-scroll complete"))
    /\ pc' = "settle"
    /\ UNCHANGED <<browser, completion, ingestionResult, scrollDepth, lastScrollY, notIngest>>

\* await new Promise(resolve => setTimeout(resolve, 500)); page.content()
Settled ==
    /\ pc = "settle"
    /\ pc' = "content"
    /\ UNCHANGED <<browser, completion, ingestionResult, scrollDepth, lastScrollY,
                   logs, notIngest>>

\* const rawHtml = await page.content(); ...; return { url, rawHtml, ... }
ContentRead ==
    /\ pc = "content"
    /\ \E markup \in {Scenario, <<>>}, loadTimeMs \in LoadTimes, finalUrl \in {ingestUrl, SampleUrl} :
          completion' = [url |-> ingestUrl, rawHtml |-> markup, finalUrl |-> finalUrl,
                         scrollDepth |-> scrollDepth, htmlSize |-> MarkupLength(markup),
                         loadTimeMs |-> loadTimeMs]
    /\ logs' = Log(logs, IngestLog("INFO", "Ingestion complete"))
    /\ pc' = "finally"
    /\ UNCHANGED <<browser, ingestionResult, scrollDepth, lastScrollY, notIngest>>

\* an awaited call rejects: control passes to the catch block
AwaitRejected ==
    /\ pc \in {"launch", "context", "route", "page", "goto", "scroll", "scrolltop", "content"}
    /\ \E thrown \in ThrownValues : Caught(thrown)
    /\ UNCHANGED <<browser, ingestionResult, scrollDepth, lastScrollY, notIngest>>

\* the variant without the finally block: the value is delivered as returned
Finally_NoClose ==
    /\ pc = "finally"
    /\ ingestionResult' = completion
    /\ pc' = "ingested"
    /\ UNCHANGED <<browser, completion, scrollDepth, lastScrollY, logs, notIngest>>

\* finally { if (browser) { await browser.close(); ... } }
Finally ==
    /\ pc = "finally"
    /\ IF browser = "open"
       THEN /\ pc' = "closing"
            /\ UNCHANGED ingestionResult
       ELSE /\ ingestionResult' = completion
            /\ pc' = "ingested"
    /\ UNCHANGED <<browser, completion, scrollDepth, lastScrollY, logs, notIngest>>

\* browser.close() resolves; log.debug('Browser closed'); the value held
\* back is delivered
Closed ==
    /\ pc = "closing"
    /\ browser' = "closed"
    /\ logs' = Log(logs, IngestLog("DEBUG", "Browser closed"))
    /\ ingestionResult' = completion
    /\ pc' = "ingested"
    /\ UNCHANGED <<completion, scrollDepth, lastScrollY, notIngest>>

NextIngest ==
    \/ StartIngest
    \/ Launched
    \/ ContextCreated
    \/ Routed
    \/ PageCreated
    \/ Navigated
    \/ NetworkSettled
    \/ Scrolled
    \/ ScrollWaited
    \/ ScrolledToTop
    \/ Settled
    \/ ContentRead
    \/ AwaitRejected
    \/ Finally
    \/ Closed

SpecIngest == InitIngest /\ [][NextIngest]_vars

-----------------------------------------------------------------------------
(* Properties of ingest                                                     *)

Delivered == ingestionResult # NoResult

\* C29: a browser that ingest launched is closed before ingest delivers its
\* result, on the success path, the HTTP-error path and the exception paths;
\* when the URL does not parse no browser is launched and a failure is
\* returned
C29_BrowserClosed ==
    /\ Delivered => browser # "open"
    /\ Delivered /\ ~ParseUrl(ingestUrl).ok =>
          /\ browser = "none"
          /\ ingestionResult = IngestionError(<<"I", "n", "v", "a", "l", "i", "d", " ", "U", "R", "L", " ", "f", "o", "r", "m", "a", "t">>)
    /\ Delivered /\ browser = "none" => "success" \in DOMAIN ingestionResult

\* a page delivered after the browser was closed
C29_Witness ==
    /\ pc = "ingested"
    /\ browser = "closed"
    /\ "rawHtml" \in DOMAIN ingestionResult
    /\ ingestionResult.rawHtml = Scenario
    /\ ingestionResult.scrollDepth = ViewportHeight

-----------------------------------------------------------------------------
(* runPipeline (src/unnamed/part_003).  An invocation runs without          *)
(* interruption from one await to the next, so it has one step per await:   *)
(* ingest, extractVisibility and extract.  clean, flattenHtml,              *)
(* mergeVisibleText and validate are synchronous and are computed inside    *)
(* the step that calls them.  The pages, the answers of the model and the   *)
(* exceptions are chosen by the environment.                                *)

\* clean from a given count of removed elements, when JSDOM does not throw:
\* the steps of the state machine above in one call
CleanFrom(raw, count) ==
    LET JsonLd == << <<Tag("script"), AttrEq("type", <<"a", "p", "p", "l", "i", "c", "a", "t", "i", "o", "n", "/", "l", "d", "+", "j", "s", "o", "n">>)>> >>
        Finish(pass, metaTags, n) ==
            CleaningResult(raw, pass.document, metaTags, n + pass.count)
        Boilerplate(pass, metaTags, n) ==
            Finish(RemovePass(pass.document, BOILERPLATE_SELECTORS), metaTags, n + pass.count)
        Hidden(pass, metaTags) ==
            Boilerplate(RemovePass(DocumentRemove(pass.document, JsonLd), HIDDEN_SELECTORS),
                        metaTags, count + pass.count)
        Dangerous(doc) == Hidden(RemovePass(doc, REMOVE_ELEMENTS), ExtractMetaTags(doc))
    IN Dangerous(JSDOM(raw))

\* a clean that goes on counting from the cleanings in the shared log
clean_SharedCount(raw) ==
    CleanFrom(raw, Len(SelectSeq(logs, LAMBDA e : e.message = "Cleaning complete")))

\* clean(rawHtml): let elementsRemoved = 0
clean(raw) == CleanFrom(raw, 0)

\* the catch block of clean
CleaningError(thrown) ==
    [success |-> FALSE, stage |-> "cleaning", reason |-> MessageOf(thrown)]

\* 'success' in result && result.success === false
Failed(r) == "success" \in DOMAIN r /\ r.success = FALSE

PipelineUrls == {SampleUrl, <<"h", "t", "t", "p", "s", ":", "/", "/", "e", ".", "c", "o", "/", "m">>, <<"n", "o", "t", " ", "a", " ", "u", "r", "l">>}

\* the page behind a URL
PageAt(u) == IF u = SampleUrl THEN Scenario ELSE MetaExample

\* what ingest(url) resolves to
IngestOutcomes(u) ==
    LET Error(reason) == [success |-> FALSE, stage |-> "ingestion", reason |-> reason, url |-> u]
    IN IF ~ParseUrl(u).ok THEN {Error(<<"I", "n", "v", "a", "l", "i", "d", " ", "U", "R", "L", " ", "f", "o", "r", "m", "a", "t">>)}
       ELSE {Error(<<"H", "T", "T", "P", " ", "e", "r", "r", "o", "r", ":", " ">> \o NatChars(404)),
             [url |-> u, rawHtml |-> PageAt(u), finalUrl |-> u, scrollDepth |-> 0,
              htmlSize |-> MarkupLength(PageAt(u)), loadTimeMs |-> 1500]}

\* what generateObject answers to the visibility prompt: an object whose
\* facts are a list, an object whose facts are something else, or a rejection
VisibilityResponses ==
    {[k |-> "object", facts |-> f] :
        f \in {Arr(<<<<"I", "n", " ", "s", "t", "o", "c", "k">>, <<"4", ".", "5", " ", "s", "t", "a", "r", "s">>>>), Arr(<<>>), Str(<<"I", "n", " ", "s", "t", "o", "c", "k">>), Null}}
    \cup {[k |-> "rejects", thrown |-> t] : t \in ThrownValues}

VisibilityError(reason) == [success |-> FALSE, stage |-> "visibility", reason |-> reason]

\* extractVisibility: the value returned for an answer of generateObject
extractVisibility(response) ==
    IF response.k = "rejects" THEN VisibilityError(MessageOf(response.thrown))
    ELSE IF response.facts.k # "arr"
    THEN VisibilityError(<<"I", "n", "v", "a", "l", "i", "d", " ", "v", "i", "s", "i", "b", "i", "l", "i", "t", "y", " ", "e", "x", "t", "r", "a", "c", "t", "o", "r", " ", "o", "u", "t", "p", "u", "t", ":", " ", "f", "a", "c", "t", "s", " ", "i", "s", " ", "n", "o", "t", " ", "a", "n", " ", "a", "r", "r", "a", "y">>)
    ELSE [success |-> TRUE, facts |-> response.facts]

\* what generateObject answers to the extraction prompt
ExtractionResponses ==
    {[k |-> "object", data |-> d] :
        d \in {BaseCandidate(T_Product), SetKey(BaseCandidate(T_Product), "product", Null),
               SetKey(BaseCandidate(T_WebPage), "detectedType", Absent)}}
    \cup {[k |-> "rejects", thrown |-> t] : t \in ThrownValues}

\* extract: the value returned for an answer of generateObject
extract(response) ==
    IF response.k = "rejects"
    THEN [success |-> FALSE, stage |-> "extraction", reason |-> MessageOf(response.thrown)]
    ELSE [success |-> TRUE, data |-> response.data]

\* the failure with a reason of the pipeline's own
PipelineError_OwnReason(stage, reason, entries) ==
    [success |-> FALSE, stage |-> stage, reason |-> <<"P", "i", "p", "e", "l", "i", "n", "e", " ", "f", "a", "i", "l", "e", "d">>, logs |-> entries]

PipelineError(stage, reason, entries) ==
    [success |-> FALSE, stage |-> stage, reason |-> reason, logs |-> entries]

PipelineSuccess(v, entries) ==
    [success |-> TRUE, jsonLd |-> v.jsonLd, detectedType |-> v.detectedType,
     repairs |-> v.repairs, logs |-> entries]

\* a failure taken for facts
VisibleTextPlus_FailureMerged(visibility, text) ==
    IF visibility.success THEN mergeVisibleText(visibility.facts, text)
    ELSE mergeVisibleText(Arr(<<visibility.reason>>), text)

\* let visibleTextPlus = successCleaning.visibleText; on success it becomes
\* mergeVisibleText(visibilityFacts, successCleaning.visibleText)
VisibleTextPlus(visibility, text) ==
    IF visibility.success THEN mergeVisibleText(visibility.facts, text) ELSE text

\* An invocation: its argument, the values its stages returned, the value
\* it returned, and, for the properties, the stages it ran, the answer the
\* visibility model gave and the entries it logged.
NewRun(u) ==
    [pc |-> "start", url |-> u, ingestion |-> NoResult, cleaning |-> NoResult,
     flattened |-> NoResult, response |-> NoResult, visibility |-> NoResult,
     bundle |-> NoResult, extraction |-> NoResult, validation |-> NoResult,
     result |-> NoResult, stages |-> <<>>, logged |-> <<>>]

RunIds == {1, 2}

\* the answers of the environment: all of them for a single invocation, a
\* few of them when invocations overlap
Answers(all, few) == IF Cardinality(DOMAIN runs) = 1 THEN all ELSE few

InitRuns(started) ==
    /\ pc = "pipeline"
    /\ runs \in started
    /\ logs = <<>>
    /\ debugEnabled \in BOOLEAN
    /\ IdleIngest
    /\ cand = Null
    /\ pageUrl = Undefined
    /\ tzOffset = 0
    /\ result = NoResult
    /\ steps = <<>>
    /\ Idle
    /\ IdleUrl /\ IdleDate /\ IdleMerge /\ IdleClean /\ IdleFlatten

InitPipeline == InitRuns([{1} -> {NewRun(u) : u \in PipelineUrls}])

\* two invocations for two pages
InitOverlap ==
    InitRuns({started \in [RunIds -> {NewRun(u) : u \in PipelineUrls}] :
                 /\ started[1].url = SampleUrl
                 /\ started[2].url \notin {SampleUrl, <<"n", "o", "t", " ", "a", " ", "u", "r", "l">>}})

notPipeline == <<coreVars, urlVars, dateVars, mergeVars, cleanVars, flattenVars,
                 ingestVars, debugEnabled>>

\* invocation r logs the entries and goes on with the locals given
Proceed(r, new, run) ==
    /\ logs' = LogAll(logs, new)
    /\ runs' = [runs EXCEPT ![r] = [run EXCEPT !.logged = LogAll(@, new)]]

\* logger.clear(); logger.info('Pipeline', 'Starting pipeline'); ingest(url)
\* up to its first await
BeginRun(r) ==
    /\ runs[r].pc = "start"
    /\ LET Cleared(new) ==
              /\ logs' = LogAll(<<>>, new)
              /\ runs' = [runs EXCEPT ![r] = [@ EXCEPT !.pc = "ingest",
                                                       !.stages = <<"ingestion">>,
                                                       !.logged = LogAll(@, new)]]
       IN Cleared(<<LogEntry(r, "INFO", "Pipeline", "Starting pipeline"),
                    LogEntry(r, "INFO", "Ingestion", "Starting ingestion")>>)
    /\ UNCHANGED <<pc, notPipeline>>

\* const ingestionResult = await ingest(url); then, without a further await,
\* clean, flattenHtml and extractVisibility up to its await
IngestReturned(r) ==
    /\ runs[r].pc = "ingest"
    /\ LET Entry(level, stage, message) == LogEntry(r, level, stage, message)
           Ingested(ingestion) ==
               IF Failed(ingestion)
               THEN <<Entry("ERROR", "Ingestion", "Ingestion failed")>>
               ELSE <<Entry("INFO", "Ingestion", "Ingestion complete"),
                      Entry("DEBUG", "Ingestion", "Browser closed"),
                      Entry("DEBUG", "Pipeline", "Saved output"),
                      Entry("INFO", "Cleaning", "Starting DOM cleaning")>>
           Cleaned(cleaning) ==
               IF Failed(cleaning)
               THEN <<Entry("ERROR", "Cleaning", "Cleaning failed")>>
               ELSE <<Entry("INFO", "Cleaning", "Cleaning complete"),
                      Entry("INFO", "Flatten", "Starting HTML flattening"),
                      Entry("INFO", "Flatten", "Flattening complete"),
                      Entry("INFO", "Pipeline", "HTML flattening complete"),
                      Entry("INFO", "VisibilityExtractor", "Starting visibility extraction"),
                      Entry("DEBUG", "VisibilityExtractor", "Sending request to Claude 3.5 Haiku")>>
           AfterClean(ingestion, cleaning) ==
               IF Failed(cleaning)
               THEN Proceed(r, Ingested(ingestion) \o Cleaned(cleaning),
                            [runs[r] EXCEPT !.pc = "done",
                                            !.ingestion = ingestion,
                                            !.cleaning = cleaning,
                                            !.stages = @ \o <<"cleaning">>,
                                            !.result = PipelineError("cleaning", cleaning.reason, logs')])
               ELSE Proceed(r, Ingested(ingestion) \o Cleaned(cleaning),
                            [runs[r] EXCEPT !.pc = "visibility",
                                            !.ingestion = ingestion,
                                            !.cleaning = cleaning,
                                            !.flattened = flattenHtml(cleaning.cleanedHtml),
                                            !.stages = @ \o <<"cleaning", "flatten", "visibility">>])
           AfterIngest(ingestion, thrown) ==
               IF Failed(ingestion)
               THEN Proceed(r, Ingested(ingestion),
                            [runs[r] EXCEPT !.pc = "done",
                                            !.ingestion = ingestion,
                                            !.result = PipelineError("ingestion", ingestion.reason, logs')])
               ELSE AfterClean(ingestion, IF thrown = Null THEN clean(ingestion.rawHtml)
                                          ELSE CleaningError(thrown))
       IN \E ingestion \in IngestOutcomes(runs[r].url),
             thrown \in Answers(ThrownValues, {}) \cup {Null} :
               AfterIngest(ingestion, thrown)
    /\ UNCHANGED <<pc, notPipeline>>

\* const visibilityResult = await extractVisibility(...); the merge;
\* enhancedCleaning; extract(enhancedCleaning, finalUrl) up to its await.
\* extractVisibility catches what it throws, so the catch block of
\* runPipeline is not entered.
VisibilityReturned(r) ==
    /\ runs[r].pc = "visibility"
    /\ LET Entry(level, stage, message) == LogEntry(r, level, stage, message)
           Answered(visibility) ==
               (IF visibility.success
                THEN <<Entry("INFO", "VisibilityExtractor", "Visibility extraction complete"),
                       Entry("INFO", "Pipeline", "Visibility extraction complete")>>
                ELSE <<Entry("ERROR", "VisibilityExtractor", "Visibility extraction failed"),
                       Entry("WARN", "Pipeline", "Visibility extraction failed, continuing with original visibleText")>>)
               \o <<Entry("INFO", "Extraction", "Starting AI extraction"),
                    Entry("DEBUG", "Extraction", "Prompt built"),
                    Entry("INFO", "Extraction", "Sending request to Claude 3.5 Haiku")>>
           AfterVisibility(response, visibility) ==
               Proceed(r, Answered(visibility),
                       [runs[r] EXCEPT !.pc = "extract",
                                       !.response = response,
                                       !.visibility = visibility,
                                       !.bundle = [runs[r].cleaning EXCEPT !.visibleText =
                                                      VisibleTextPlus(visibility, @)],
                                       !.stages = @ \o (IF visibility.success THEN <<"merge">> ELSE <<>>)
                                                    \o <<"extraction">>])
       IN \E response \in Answers(VisibilityResponses,
                                  {v \in VisibilityResponses :
                                      v.k = "object" /\ v.facts \in {Arr(<<<<"I", "n", " ", "s", "t", "o", "c", "k">>, <<"4", ".", "5", " ", "s", "t", "a", "r", "s">>>>), Null}}) :
               AfterVisibility(response, extractVisibility(response))
    /\ UNCHANGED <<pc, notPipeline>>

\* const extractionResult = await extract(...); validate(extractionResult.data);
\* return
ExtractReturned(r) ==
    /\ runs[r].pc = "extract"
    /\ LET Entry(level, stage, message) == LogEntry(r, level, stage, message)
           Extracted(extraction) ==
               IF extraction.success
               THEN <<Entry("INFO", "Extraction", "AI response received"),
                      Entry("INFO", "Validator", "Starting validation"),
                      Entry("DEBUG", "Validator", "Running Zod schema validation")>>
               ELSE <<Entry("ERROR", "Extraction", "Extraction failed")>>
           Checked(checks) ==
               IF checks = <<"zod">>
               THEN <<Entry("ERROR", "Validator", "Zod validation failed")>>
               ELSE IF checks = <<"zod", "required">>
               THEN <<Entry("DEBUG", "Validator", "Checking required fields"),
                      Entry("ERROR", "Validator", "Required field missing")>>
               ELSE <<Entry("DEBUG", "Validator", "Checking required fields"),
                      Entry("DEBUG", "Validator", "Building JSON-LD with repairs"),
                      Entry("INFO", "Validator", "Validation complete"),
                      Entry("INFO", "Pipeline", "Pipeline complete")>>
           AfterValidate(extraction, validated) ==
               Proceed(r, Extracted(extraction) \o Checked(validated.steps),
                       [runs[r] EXCEPT !.pc = "done",
                                       !.extraction = extraction,
                                       !.validation = validated.result,
                                       !.stages = @ \o <<"validation">>,
                                       !.result = IF validated.result.success
                                                  THEN PipelineSuccess(validated.result, logs')
                                                  ELSE PipelineError("validator", validated.result.reason, logs')])
           AfterExtract(extraction) ==
               IF ~extraction.success
               THEN Proceed(r, Extracted(extraction),
                            [runs[r] EXCEPT !.pc = "done",
                                            !.extraction = extraction,
                                            !.result = PipelineError("extraction", extraction.reason, logs')])
               ELSE AfterValidate(extraction, validate(extraction.data, Undefined, 0))
       IN \E response \in Answers(ExtractionResponses,
                                  {e \in ExtractionResponses :
                                      e.k = "rejects" /\ e.thrown.error}
                                  \cup {[k |-> "object", data |-> BaseCandidate(T_Product)]}) :
               AfterExtract(extract(response))
    /\ UNCHANGED <<pc, notPipeline>>

NextPipeline ==
    \E r \in DOMAIN runs :
        \/ BeginRun(r)
        \/ IngestReturned(r)
        \/ VisibilityReturned(r)
        \/ ExtractReturned(r)

SpecPipeline == InitPipeline /\ [][NextPipeline]_vars

SpecOverlap == InitOverlap /\ [][NextPipeline]_vars

-----------------------------------------------------------------------------
(* Properties of runPipeline                                                *)

MainStages == <<"ingestion", "cleaning", "extraction", "validation">>

\* the main stages an invocation has called, in the order of the calls
MainStagesRun(run) == SelectSeq(run.stages, LAMBDA s : InSeq(s, MainStages))

StageResult(run, stage) ==
    CASE stage = "ingestion" -> run.ingestion
      [] stage = "cleaning" -> run.cleaning
      [] stage = "extraction" -> run.extraction
      [] stage = "validation" -> run.validation

\* the name a failure result gives to a stage
StageLabel(stage) == IF stage = "validation" THEN "validator" ELSE stage

Returned(r) == r # NoResult

StageFailed(r) == Returned(r) /\ Failed(r)

UsableAnswer(response) == response.k = "object" /\ response.facts.k = "arr"

\* C22: once the visibility step has answered, the invocation goes on to the
\* extraction whatever the answer was; after an answer that is a rejection
\* or whose facts are not a list nothing is merged and extract is handed the
\* visibleText of clean; after a usable answer extract is handed the merge
\* of the facts and that text; every other field of the bundle handed to
\* extract is the one clean returned; no failure names the visibility step
C22_MalformedFactsNotMerged ==
    \A r \in DOMAIN runs :
        LET run == runs[r]
        IN Returned(run.response) =>
              /\ run.pc \in {"extract", "done"}
              /\ InSeq("extraction", run.stages)
              /\ Returned(run.bundle)
              /\ [run.bundle EXCEPT !.visibleText = run.cleaning.visibleText] = run.cleaning
              /\ IF UsableAnswer(run.response)
                 THEN /\ InSeq("merge", run.stages)
                      /\ run.bundle.visibleText =
                            mergeVisibleText(run.response.facts, run.cleaning.visibleText)
                 ELSE /\ ~InSeq("merge", run.stages)
                      /\ run.bundle.visibleText = run.cleaning.visibleText
              /\ Returned(run.result) /\ ~run.result.success =>
                    run.result.stage \in {"extraction", "validator"}

\* an invocation that succeeded after facts that were a string, and was
\* handed the text of clean
C22_Witness ==
    /\ DOMAIN runs = {1}
    /\ runs[1].response = [k |-> "object", facts |-> Str(<<"I", "n", " ", "s", "t", "o", "c", "k">>)]
    /\ runs[1].bundle.visibleText = runs[1].cleaning.visibleText
    /\ runs[1].bundle.visibleText # <<>>
    /\ runs[1].result.success

\* an invocation that merged two facts
C22_Merged ==
    /\ DOMAIN runs = {1}
    /\ Returned(runs[1].response)
    /\ UsableAnswer(runs[1].response)
    /\ runs[1].bundle.visibleText =
          <<"I", "n", " ", "s", "t", "o", "c", "k">> \o <<"\n">> \o <<"4", ".", "5", " ", "s", "t", "a", "r", "s">> \o <<"\n", "\n">> \o runs[1].cleaning.visibleText
    /\ runs[1].result.success

\* C27: the logs of the result of an invocation are the entries that the
\* invocation logged, in the order it logged them
C27_OwnLogs ==
    \A r \in DOMAIN runs :
        Returned(runs[r].result) => runs[r].result.logs = runs[r].logged

\* the answer of the visibility model merged into a text
MergeAlone(response, text) ==
    IF UsableAnswer(response) THEN mergeVisibleText(response.facts, text) ELSE text

\* the values clean and flattenHtml return for a page when called alone
PageAlone(raw) ==
    LET Flattened(cleaning) ==
            [cleaning |-> cleaning, flattened |-> flattenHtml(cleaning.cleanedHtml)]
    IN Flattened(clean(raw))

\* the values for each page, computed once
PagesAlone == [u \in PipelineUrls |-> PageAlone(PageAt(u))]

====
